---------------------------- MODULE Spec2Model ----------------------------
(***************************************************************************)
(* Model of the streaming orchestration core of the avatar service:        *)
(*   - TextChunker        (avatar/llm/text_chunker.py)                     *)
(*   - AvatarPipeline     (avatar/pipeline/avatar_pipeline.py)             *)
(*   - StreamingManager   (avatar/pipeline/streaming_manager.py)           *)
(*                                                                         *)
(* Text is a sequence of one-character strings.  Positions handed between  *)
(* the string helpers are Python's 0-based offsets: Take(s, n) is s[:n]    *)
(* and Drop(s, n) is s[n:].  Non-ASCII characters of the source are named  *)
(* ("ellipsis", "emdash", "endash").  Audio durations are counted in whole *)
(* units, so that timeline_ts += duration is integer addition.             *)
(***************************************************************************)
EXTENDS Integers, Sequences, FiniteSets, TLC

VARIABLES
    \* ---- TextChunker instance
    mode, max_words, min_words,   \* configuration given to __init__
    buffer,                       \* self.buffer
    total_chunks_yielded,         \* self.total_chunks_yielded
    cpc,                          \* position of process_stream: "idle", "feeding", "flushed", "done"
    stream_left,                  \* tokens the token stream may still produce
    fed,                          \* history: concatenation of the tokens received
    chunks,                       \* history: the chunks yielded, in order
    fresh,                        \* a chunker constructed afresh for the current stream and fed the same tokens
    \* ---- AvatarPipeline.process invocation
    ppc,                          \* position of process
    user_input,                   \* [len, blank]: the argument of process
    conversation_history,         \* the caller's list passed as conversation_history, or None
    messages,                     \* local messages, handed to the language model
    timeline_ts,                  \* local timeline_ts
    cur,                          \* locals of the chunk in flight
    frames,                       \* history: the frames yielded, in order
    calls,                        \* history: the external capabilities called so far
    error,                        \* exception raised to the caller, or "none"
    temp_files,                   \* number of temporary audio files of the invocation on disk
    \* ---- StreamingManager
    observers,                    \* self._observers
    bpc,                          \* position of the broadcast: "idle", "delivering", "delivering_error", "raised"
    snapshot,                     \* list(self._observers) taken by the broadcast
    bidx,                         \* index of the next observer of the snapshot
    bframe,                       \* number of the frame (or error) being broadcast
    error_payload,                \* local error_payload of broadcast_error
    delivered,                    \* history: the observer calls of the latest broadcast
    lastCall,                     \* history: the last manager operation and its argument
    ops_left,                     \* manager operations still allowed
    tasks,                        \* the broadcast call of each concurrent caller: its position and locals
    received,                     \* history: the observer calls of the concurrent callers, begun and ended
    \* ---- stream_endpoint: one WebSocket session
    wpc,                          \* position of the handler: "receiving", "received", "streaming", "closed", "disconnected"
    sent,                         \* history: the messages sent since the latest request was received
    full_text,                    \* local full_text
    total_duration,               \* local total_duration
    \* ---- chat_endpoint: one POST /chat request
    rpc,                          \* position of the handler: "absent", "running", "responded", "errored"
    full_text_chunks,             \* local full_text_chunks
    all_audio_bytes,              \* local all_audio_bytes
    all_blendshapes,              \* local all_blendshapes
    all_motion,                   \* local all_motion
    response,                     \* what the client gets: nothing yet, a ChatResponse or an HTTPException
    \* ---- AvatarPipeline.healthcheck invocation
    hpc,                          \* position of healthcheck: "idle", "checking", "returned"
    probes,                       \* what each component's health probe does
    health,                       \* the entries of the returned dict evaluated so far
    \* ---- two process invocations on one AvatarPipeline
    invocations                   \* the locals of each invocation, its position and what it got and yielded

chunkerVars == <<mode, max_words, min_words, buffer, total_chunks_yielded, cpc, stream_left, fed, chunks, fresh>>
pipelineVars == <<ppc, user_input, conversation_history, messages, timeline_ts, cur, frames, calls, error, temp_files>>
taskVars == <<tasks, received>>
managerVars == <<observers, bpc, snapshot, bidx, bframe, error_payload, delivered, lastCall, ops_left, taskVars>>
chatVars == <<rpc, full_text_chunks, all_audio_bytes, all_blendshapes, all_motion, response>>
endpointVars == <<wpc, sent, full_text, total_duration, chatVars>>
healthVars == <<hpc, probes, health>>
concurrentVars == <<invocations>>
vars == <<chunkerVars, pipelineVars, managerVars, endpointVars, healthVars, concurrentVars>>

-----------------------------------------------------------------------------
(* Python string helpers used by the chunker                               *)

Whitespace == {" ", "\t", "\n"}

IsSpace(c) == c \in Whitespace

Take(s, n) == SubSeq(s, 1, n)

Drop(s, n) == SubSeq(s, n + 1, Len(s))

\* str.lstrip()
LStrip(s) ==
    IF \A i \in 1..Len(s) : IsSpace(s[i]) THEN <<>>
    ELSE LET k == CHOOSE i \in 1..Len(s) :
                      ~IsSpace(s[i]) /\ \A j \in 1..(i - 1) : IsSpace(s[j])
         IN SubSeq(s, k, Len(s))

\* str.rstrip()
RStrip(s) ==
    IF \A i \in 1..Len(s) : IsSpace(s[i]) THEN <<>>
    ELSE LET k == CHOOSE i \in 1..Len(s) :
                      ~IsSpace(s[i]) /\ \A j \in (i + 1)..Len(s) : IsSpace(s[j])
         IN SubSeq(s, 1, k)

\* str.strip()
Strip(s) == RStrip(LStrip(s))

\* str.split(): the maximal runs of non-whitespace characters
RECURSIVE Split(_)
Split(s) ==
    LET t == LStrip(s) IN
    IF t = <<>> THEN <<>>
    ELSE LET e == IF \E i \in 1..Len(t) : IsSpace(t[i])
                  THEN CHOOSE i \in 1..Len(t) :
                           IsSpace(t[i]) /\ \A j \in 1..(i - 1) : ~IsSpace(t[j])
                  ELSE Len(t) + 1
         IN <<SubSeq(t, 1, e - 1)>> \o Split(SubSeq(t, e, Len(t)))

\* len(s.split())
WordCount(s) == Len(Split(s))

\* " ".join(words)
RECURSIVE Join(_)
Join(words) ==
    IF words = <<>> THEN <<>>
    ELSE IF Len(words) = 1 THEN words[1]
    ELSE words[1] \o <<" ">> \o Join(Tail(words))

\* s.find(t): lowest 0-based offset of t in s, -1 when absent
Find(s, t) ==
    LET hits == {i \in 0..(Len(s) - Len(t)) : SubSeq(s, i + 1, i + Len(t)) = t}
    IN IF hits = {} THEN -1 ELSE CHOOSE i \in hits : \A j \in hits : i <= j

\* s.rfind(' '): highest 0-based offset of a plain space in s, -1 when absent
RFindSpace(s) ==
    LET hits == {i \in 0..(Len(s) - 1) : s[i + 1] = " "}
    IN IF hits = {} THEN -1 ELSE CHOOSE i \in hits : \A j \in hits : i >= j

\* re.search(cls, s).end(): offset just after the first character of cls, -1 when no match
SearchEnd(cls, s) ==
    LET hits == {i \in 1..Len(s) : s[i] \in cls}
    IN IF hits = {} THEN -1 ELSE CHOOSE i \in hits : \A j \in hits : i <= j

SENTENCE_TERMINATORS == {".", "!", "?", "ellipsis"}

CLAUSE_SEPARATORS == {",", ";", ":", "emdash", "endash"}

\* the literal '.,!?;:—–…' of _extract_complete_words
WordEndPunctuation == {".", ",", "!", "?", ";", ":", "emdash", "endash", "ellipsis"}


-----------------------------------------------------------------------------
(* TextChunker                                                             *)

Modes == {"words", "punctuation", "hybrid"}

\* result of an extraction attempt: the chunk (some = FALSE stands for None), the
\* buffer left behind, and the offset in the old buffer at which it was cut
NoChunk(buf) == [some |-> FALSE, chunk |-> <<>>, buffer |-> buf, cut |-> -1]

GotChunk(c, buf, end) == [some |-> TRUE, chunk |-> c, buffer |-> LStrip(Drop(buf, end)), cut |-> end]

\* _extract_complete_words(text, max_pos) -> (chunk, actual_end)
ExtractCompleteWords(text, max_pos) ==
    IF max_pos >= Len(text) THEN [chunk |-> Strip(text), end |-> Len(text)]
    ELSE LET chunk == Take(text, max_pos) IN
         IF chunk # <<>> /\ (IsSpace(chunk[Len(chunk)]) \/ chunk[Len(chunk)] \in WordEndPunctuation)
         THEN [chunk |-> Strip(chunk), end |-> max_pos]
         ELSE LET last_space_idx == RFindSpace(chunk) IN
              IF last_space_idx = -1 THEN [chunk |-> <<>>, end |-> 0]
              ELSE [chunk |-> Strip(Take(text, last_space_idx)), end |-> last_space_idx]

\* CutAfter without the min_words test
CutAfterAnyLength(cls, buf, minw) ==
    LET end_pos == SearchEnd(cls, buf) IN
    IF end_pos = -1 THEN NoChunk(buf)
    ELSE GotChunk(Strip(Take(buf, end_pos)), buf, end_pos)

\* the cut after a character of cls (sentence terminator or clause separator)
CutAfter(cls, buf, minw) ==
    LET end_pos == SearchEnd(cls, buf) IN
    IF end_pos = -1 THEN NoChunk(buf)
    ELSE LET chunk == Strip(Take(buf, end_pos)) IN
         IF WordCount(chunk) >= minw THEN GotChunk(chunk, buf, end_pos) ELSE NoChunk(buf)

\* _extract_by_words
ExtractByWords(buf, maxw, minw) ==
    LET words == Split(Strip(buf)) IN
    IF Len(words) >= maxw
    THEN LET target_text == Join(Take(words, maxw))
             pos == Find(buf, target_text)
         IN IF pos # -1
            THEN LET r == ExtractCompleteWords(buf, pos + Len(target_text)) IN
                 IF r.chunk # <<>> /\ WordCount(r.chunk) >= minw
                 THEN GotChunk(r.chunk, buf, r.end)
                 ELSE NoChunk(buf)
            ELSE NoChunk(buf)
    ELSE NoChunk(buf)

\* _extract_by_punctuation
ExtractByPunctuation(buf, maxw, minw) ==
    LET sentence == CutAfter(SENTENCE_TERMINATORS, buf, minw) IN
    IF sentence.some THEN sentence
    ELSE IF WordCount(Strip(buf)) >= minw + 2
         THEN CutAfter(CLAUSE_SEPARATORS, buf, minw)
         ELSE NoChunk(buf)

\* the loop of _extract_hybrid that looks for the start of word number max_words + 1;
\* 0 when the buffer has no such word
WordStartAfter(buf, maxw) ==
    LET starts == {i \in 0..(Len(buf) - 1) :
                       /\ ~IsSpace(buf[i + 1])
                       /\ (i = 0 \/ IsSpace(buf[i]))}
        late == {i \in starts : Cardinality({j \in starts : j <= i}) > maxw}
    IN IF late = {} THEN 0 ELSE CHOOSE i \in late : \A j \in late : i <= j

\* step 3 of _extract_hybrid
HybridWordCut(buf, maxw, minw) ==
    IF WordCount(Strip(buf)) >= maxw
    THEN LET pos == WordStartAfter(buf, maxw) IN
         IF pos > 0
         THEN LET r == ExtractCompleteWords(buf, pos) IN
              IF r.chunk # <<>> /\ WordCount(r.chunk) >= minw
              THEN GotChunk(r.chunk, buf, r.end)
              ELSE NoChunk(buf)
         ELSE NoChunk(buf)
    ELSE NoChunk(buf)

\* _extract_hybrid
ExtractHybrid(buf, maxw, minw) ==
    LET sentence == CutAfter(SENTENCE_TERMINATORS, buf, minw) IN
    IF sentence.some THEN sentence
    ELSE LET clause == IF WordCount(Strip(buf)) >= maxw - 2
                       THEN CutAfter(CLAUSE_SEPARATORS, buf, minw)
                       ELSE NoChunk(buf)
         IN IF clause.some THEN clause ELSE HybridWordCut(buf, maxw, minw)

\* _try_extract_chunk
TryExtractChunk(m, buf, maxw, minw) ==
    IF m = "words" THEN ExtractByWords(buf, maxw, minw)
    ELSE IF m = "punctuation" THEN ExtractByPunctuation(buf, maxw, minw)
    ELSE ExtractHybrid(buf, maxw, minw)

\* the body of the token loop of process_stream: append the token, try one extraction;
\* the chunk is yielded when it is truthy
FeedToken(m, buf, maxw, minw, token) ==
    LET r == TryExtractChunk(m, buf \o token, maxw, minw)
    IN [yield |-> r.some /\ r.chunk # <<>>, chunk |-> r.chunk, buffer |-> r.buffer,
        cut |-> r.cut]

\* the final flush of process_stream: the trimmed remainder, yielded when non-empty
FinalChunk(buf) == Strip(buf)

\* the final flush held to the min_words test of the other chunks
FlushYieldsIfLongEnough(buf) == FinalChunk(buf) # <<>> /\ WordCount(FinalChunk(buf)) >= min_words

FlushYields(buf) == FinalChunk(buf) # <<>>


-----------------------------------------------------------------------------
(* One TextChunker instance driven through process_stream                  *)

\* longest token stream explored
MaxTokens == 3

\* (max_words, min_words) pairs given to the constructor; the last is the pipeline's
ChunkerConfigs ==
    {[max_words |-> 2, min_words |-> 1],
     [max_words |-> 3, min_words |-> 2],
     [max_words |-> 10, min_words |-> 4]}

\* tokens the stream may carry: "a", " b", " ", ".", ",", "a b", "\tb"
ChunkerTokens ==
    {<<"a">>, <<" ", "b">>, <<" ">>, <<".">>, <<",">>, <<"a", " ", "b">>, <<"\t", "b">>}

\* the yielded chunk as recorded in the history: its text, whether it is the final
\* flush, and the offset in the whole token text at which the buffer was cut
ChunkRecord(text, final, cut) == [text |-> text, final |-> final, cut |-> cut]

\* the buffer, the counter and the chunks so far of a chunker just constructed;
\* discarded is the text the last reset() threw away
FreshChunker == [buffer |-> <<>>, total_chunks_yielded |-> 0, chunks |-> <<>>, discarded |-> <<>>]

\* the chunker constructed afresh after a token, t being what the feed returned
FreshFed(f, t) ==
    [f EXCEPT !.buffer = t.buffer,
              !.total_chunks_yielded = IF t.yield THEN @ + 1 ELSE @,
              !.chunks = IF t.yield THEN Append(@, t.chunk) ELSE @]

\* TextChunker.__init__ followed by the call of process_stream
ChunkerCreated(m, cfg, n) ==
    /\ mode = m
    /\ max_words = cfg.max_words
    /\ min_words = cfg.min_words
    /\ buffer = <<>>
    /\ total_chunks_yielded = 0
    /\ cpc = "feeding"
    /\ stream_left = n
    /\ fed = <<>>
    /\ chunks = <<>>
    /\ fresh = FreshChunker

\* no chunker exists yet
ChunkerAbsent ==
    /\ mode = "unset"
    /\ max_words = 0
    /\ min_words = 0
    /\ buffer = <<>>
    /\ total_chunks_yielded = 0
    /\ cpc = "idle"
    /\ stream_left = 0
    /\ fed = <<>>
    /\ chunks = <<>>
    /\ fresh = FreshChunker

\* one iteration of "async for token in token_stream"
ChunkerFeed(token) ==
    LET r == FeedToken(mode, buffer, max_words, min_words, token)
        start == Len(fed) - Len(buffer)
    IN /\ cpc = "feeding"
       /\ stream_left > 0
       /\ stream_left' = stream_left - 1
       /\ fed' = fed \o token
       /\ buffer' = r.buffer
       /\ total_chunks_yielded' = IF r.yield THEN total_chunks_yielded + 1 ELSE total_chunks_yielded
       /\ chunks' = IF r.yield THEN Append(chunks, ChunkRecord(r.chunk, FALSE, start + r.cut))
                    ELSE chunks
       /\ fresh' = FreshFed(fresh, FeedToken(mode, fresh.buffer, max_words, min_words, token))
       /\ UNCHANGED <<mode, max_words, min_words, cpc>>

\* the token stream is exhausted: the final chunk is yielded, or the stream completes
ChunkerFlush ==
    /\ cpc = "feeding"
    /\ IF FlushYields(buffer)
       THEN /\ total_chunks_yielded' = total_chunks_yielded + 1
            /\ chunks' = Append(chunks, ChunkRecord(FinalChunk(buffer), TRUE, Len(fed)))
            /\ cpc' = "flushed"
       ELSE /\ cpc' = "done"
            /\ UNCHANGED <<total_chunks_yielded, chunks>>
    /\ fresh' = IF FlushYields(fresh.buffer)
                THEN [fresh EXCEPT !.total_chunks_yielded = @ + 1,
                                   !.chunks = Append(@, FinalChunk(fresh.buffer))]
                ELSE fresh
    /\ UNCHANGED <<mode, max_words, min_words, buffer, stream_left, fed>>

\* the consumer asks for more after the final chunk: the buffer is cleared
ChunkerResume ==
    /\ cpc = "flushed"
    /\ buffer' = <<>>
    /\ cpc' = "done"
    /\ fresh' = [fresh EXCEPT !.buffer = <<>>]
    /\ UNCHANGED <<mode, max_words, min_words, total_chunks_yielded, stream_left, fed, chunks>>

\* the stream ends early: the consumer stops iterating, or the token source raises
\* through process_stream; what is buffered stays in the instance
ChunkerStop ==
    /\ cpc \in {"feeding", "flushed"}
    /\ cpc' = "stopped"
    /\ UNCHANGED <<mode, max_words, min_words, buffer, total_chunks_yielded, stream_left, fed, chunks, fresh>>

\* a reset that zeroes the counter and leaves the buffer
ChunkerResetKeepsBuffer ==
    /\ cpc \in {"stopped", "done"}
    /\ total_chunks_yielded' = 0
    /\ cpc' = "reset"
    /\ fresh' = [fresh EXCEPT !.discarded = <<>>]
    /\ UNCHANGED <<mode, max_words, min_words, buffer, stream_left, fed, chunks>>

\* reset(), called between two streams
ChunkerReset ==
    /\ cpc \in {"stopped", "done"}
    /\ buffer' = <<>>
    /\ total_chunks_yielded' = 0
    /\ cpc' = "reset"
    /\ fresh' = [fresh EXCEPT !.discarded = buffer]
    /\ UNCHANGED <<mode, max_words, min_words, stream_left, fed, chunks>>

\* process_stream is called again on the instance that was reset, with a token
\* stream of what is left of the token budget
ChunkerStreamAgain ==
    /\ cpc = "reset"
    /\ cpc' = "feeding"
    /\ fed' = <<>>
    /\ chunks' = <<>>
    /\ fresh' = [FreshChunker EXCEPT !.discarded = fresh.discarded]
    /\ UNCHANGED <<mode, max_words, min_words, buffer, total_chunks_yielded, stream_left>>


-----------------------------------------------------------------------------
(* AvatarPipeline.process: one invocation, stepped at its suspension points *)

\* the length limit of user_input
MaxInputLen == 2000

\* longest language-model token stream explored
MaxLLMTokens == 2

\* the chunker built by _process_llm_stream
PipelineChunkerConfig == [max_words |-> 10, min_words |-> 4]

\* user inputs: the length and whether every character is whitespace
Inputs ==
    {[len |-> 0, blank |-> TRUE]} \cup
    {[len |-> n, blank |-> b] : n \in {MaxInputLen, MaxInputLen + 1}, b \in BOOLEAN}

\* tokens of the language model: "a b c d. e f g h!" and " e"
PipelineTokens ==
    {<<"a", " ", "b", " ", "c", " ", "d", ".", " ", "e", " ", "f", " ", "g", " ", "h", "!">>,
     <<" ", "e">>}

\* durations the synthesizer reports (AudioSegment.duration >= 0)
Durations == {0, 1, 2}

LipsyncOutcomes == {"shapes", "no_frames", "save_failed", "raises"}

\* what the sentiment analyzer does: it returns a string (a known label in another
\* case and after a blank, or a label nobody knows), or it raises
SentimentOutcomes == {" Sad", "angry", "raises"}

\* the labels the motion stage is documented to take
RecognisedEmotions == {"happy", "sad", "neutral", "thinking"}

MotionOutcomes == {"keyframes", "no_keyframes", "raises"}

None == [none |-> TRUE]

Some(v) == [none |-> FALSE, value |-> v]

\* "d or None" for a dict d (a set of key/value pairs)
OrNone(d) == IF d = {} THEN None ELSE Some(d)

NoError == [type |-> "none", message |-> "", cause |-> ""]

\* audio bytes returned by synthesize for a chunk: they decode to `duration`
AudioBytes(text, duration) == [text |-> text, duration |-> duration]

NoCur ==
    [text_chunk |-> <<>>, duration |-> 0, audio_bytes |-> AudioBytes(<<>>, 0),
     lipsync |-> "", blendshapes_dict |-> {}, sentiment |-> "", emotion |-> "",
     motion |-> "", stages |-> <<>>]

\* the validation with the length test off by one
ValidateInputBelowLimit(input) ==
    IF input.len = 0 \/ input.blank THEN "ValueError"
    ELSE IF input.len >= MaxInputLen THEN "ValueError"
    ELSE "none"

\* the validation at the top of process: the error it raises, "none" when it passes
ValidateInput(input) ==
    IF input.len = 0 \/ input.blank THEN "ValueError"
    ELSE IF input.len > MaxInputLen THEN "ValueError"
    ELSE "none"

\* _process_lipsync: the dict it returns for each behaviour of save_audio_segment
\* and the lipsync generator
ProcessLipsync(outcome) ==
    IF outcome = "shapes" THEN {<<"viseme_aa", 1>>} ELSE {}

\* str.strip().lower() of the strings the analyzer returns
StripLower(label) == IF label = " Sad" THEN "sad" ELSE label

\* _detect_emotion: a returned string is passed on stripped and lower-cased; an
\* exception gives "neutral"
DetectEmotion(outcome) ==
    IF outcome = "raises" THEN "neutral" ELSE StripLower(outcome)

\* _process_motion
ProcessMotion(outcome) ==
    IF outcome = "keyframes" THEN {<<"Head", <<0, 0, 0, 1>> >>} ELSE {}

\* a frame that carries the mappings as they come, empty or not
AvatarFrameWithEmptyDicts(ts, c, motion_dict) ==
    [timestamp |-> ts,
     text_chunk |-> c.text_chunk,
     audio_chunk |-> c.audio_bytes,
     blendshapes |-> Some(c.blendshapes_dict),
     motion |-> Some(motion_dict)]

\* AvatarFrame(...) as built by process
AvatarFrame(ts, c, motion_dict) ==
    [timestamp |-> ts,
     text_chunk |-> c.text_chunk,
     audio_chunk |-> c.audio_bytes,
     blendshapes |-> OrNone(c.blendshapes_dict),
     motion |-> OrNone(motion_dict)]

\* a timeline that runs backwards
RewindTimeline(ts, duration) == ts - duration

\* the timeline counted in frames instead of seconds
AdvanceTimelineByOne(ts, duration) == ts + 1

\* timeline_ts += duration
AdvanceTimeline(ts, duration) == ts + duration

\* Message(role=..., content=...)
Message(role, content) == [role |-> role, content |-> content]

\* the lists a caller may pass as conversation_history
Histories ==
    {None, Some(<<>>),
     Some(<<Message("user", [len |-> 2, blank |-> FALSE])>>),
     Some(<<Message("user", [len |-> 2, blank |-> FALSE]),
            Message("assistant", [len |-> 5, blank |-> FALSE])>>)}

\* messages bound to the caller's list itself, so that the append reaches it
PrepareMessagesInPlace(history, input) ==
    LET appended == Append(IF history = None THEN <<>> ELSE history.value, Message("user", input))
    IN [messages |-> appended,
        conversation_history |-> IF history = None \/ history.value = <<>> THEN history ELSE Some(appended)]

\* messages = list(conversation_history or []); messages.append(Message(role="user",
\* content=user_input)): the local list and the caller's list afterwards
PrepareMessages(history, input) ==
    [messages |-> Append(IF history = None THEN <<>> ELSE history.value, Message("user", input)),
     conversation_history |-> history]

\* first step of the generator: validation, then the language-model stream is opened
\* through a fresh TextChunker
Validate ==
    /\ UNCHANGED <<managerVars, endpointVars, healthVars, concurrentVars>>
    /\ ppc = "start"
    /\ IF ValidateInput(user_input) # "none"
       THEN /\ ppc' = "failed"
            /\ error' = [type |-> "ValueError", message |-> "invalid user_input", cause |-> ""]
            /\ UNCHANGED <<chunkerVars, calls, conversation_history, messages>>
       ELSE /\ ppc' = "llm"
            /\ messages' = PrepareMessages(conversation_history, user_input).messages
            /\ conversation_history' = PrepareMessages(conversation_history, user_input).conversation_history
            /\ calls' = calls \cup {"llm"}
            /\ mode' = "hybrid"
            /\ max_words' = PipelineChunkerConfig.max_words
            /\ min_words' = PipelineChunkerConfig.min_words
            /\ cpc' = "feeding"
            /\ stream_left' = MaxLLMTokens
            /\ UNCHANGED <<buffer, total_chunks_yielded, fed, chunks, fresh, error>>
    /\ UNCHANGED <<user_input, temp_files, timeline_ts, cur, frames>>

\* a loop body that is always handed the first chunk of the stream
TakeFirstChunk ==
    /\ cur' = [NoCur EXCEPT !.text_chunk = chunks'[1].text]
    /\ ppc' = "tts"

\* the chunk handed to the loop body of process
TakeChunk ==
    /\ cur' = [NoCur EXCEPT !.text_chunk = chunks'[Len(chunks')].text]
    /\ ppc' = "tts"

\* the language model produces a token; the chunker may yield a chunk
LLMToken(token) ==
    /\ UNCHANGED <<managerVars, endpointVars, healthVars, concurrentVars>>
    /\ ppc = "llm"
    /\ ChunkerFeed(token)
    /\ IF Len(chunks') > Len(chunks) THEN TakeChunk ELSE UNCHANGED <<cur, ppc>>
    /\ UNCHANGED <<user_input, conversation_history, messages, temp_files, timeline_ts, frames, calls, error>>

\* the language model's stream ends: final flush, or completion
LLMEnd ==
    /\ UNCHANGED <<managerVars, endpointVars, healthVars, concurrentVars>>
    /\ ppc = "llm"
    /\ \/ /\ ChunkerFlush
          /\ IF cpc' = "flushed" THEN TakeChunk ELSE (ppc' = "completed" /\ UNCHANGED cur)
       \/ /\ ChunkerResume
          /\ ppc' = "completed"
          /\ UNCHANGED cur
    /\ UNCHANGED <<user_input, conversation_history, messages, temp_files, timeline_ts, frames, calls, error>>

\* a failure of the language model after which the buffered text is still flushed
\* into a last text-only frame
LLMRaiseAfterFlush ==
    /\ UNCHANGED <<managerVars, endpointVars, healthVars, concurrentVars>>
    /\ ppc = "llm"
    /\ cpc = "feeding"
    /\ ppc' = "aborted"
    /\ error' = [type |-> "RuntimeError", message |-> "LLM stream error", cause |-> "llm"]
    /\ frames' = IF FlushYields(buffer)
                 THEN Append(frames, [timestamp |-> timeline_ts, text_chunk |-> FinalChunk(buffer),
                                      audio_chunk |-> AudioBytes(<<>>, 0),
                                      blendshapes |-> None, motion |-> None])
                 ELSE frames
    /\ UNCHANGED <<chunkerVars, user_input, conversation_history, messages, temp_files, timeline_ts, cur, calls>>

\* the language model raises: _process_llm_stream wraps it and process ends
LLMRaise ==
    /\ UNCHANGED <<managerVars, endpointVars, healthVars, concurrentVars>>
    /\ ppc = "llm"
    /\ cpc = "feeding"
    /\ ppc' = "aborted"
    /\ error' = [type |-> "RuntimeError", message |-> "LLM stream error", cause |-> "llm"]
    /\ UNCHANGED <<chunkerVars, user_input, conversation_history, messages, temp_files, timeline_ts, cur, frames, calls>>

\* tts_engine.synthesize returns an AudioSegment
TTSReturn(d) ==
    /\ UNCHANGED <<managerVars, endpointVars, healthVars, concurrentVars>>
    /\ ppc = "tts"
    /\ calls' = calls \cup {"tts"}
    /\ cur' = [cur EXCEPT !.duration = d, !.audio_bytes = AudioBytes(cur.text_chunk, d),
                          !.stages = Append(@, "tts")]
    /\ ppc' = "lipsync"
    /\ UNCHANGED <<chunkerVars, user_input, conversation_history, messages, temp_files, timeline_ts, frames, error>>

\* a synthesis failure that still emits a text-only frame for the chunk
TTSRaiseAfterPartialFrame ==
    /\ UNCHANGED <<managerVars, endpointVars, healthVars, concurrentVars>>
    /\ ppc = "tts"
    /\ calls' = calls \cup {"tts"}
    /\ frames' = Append(frames, [timestamp |-> timeline_ts, text_chunk |-> cur.text_chunk,
                                 audio_chunk |-> AudioBytes(<<>>, 0),
                                 blendshapes |-> None, motion |-> None])
    /\ ppc' = "aborted"
    /\ error' = [type |-> "RuntimeError", message |-> "Pipeline error", cause |-> "tts"]
    /\ UNCHANGED <<chunkerVars, user_input, conversation_history, messages, temp_files, timeline_ts, cur>>

\* a synthesis failure that is recorded while the loop goes on to the next chunk
TTSRaiseAndGoOn ==
    /\ UNCHANGED <<managerVars, endpointVars, healthVars, concurrentVars>>
    /\ ppc = "tts"
    /\ calls' = calls \cup {"tts"}
    /\ ppc' = "llm"
    /\ error' = [type |-> "RuntimeError", message |-> "Pipeline error", cause |-> "tts"]
    /\ UNCHANGED <<chunkerVars, user_input, conversation_history, messages, temp_files, timeline_ts, cur, frames>>

\* tts_engine.synthesize raises: the except clause of process re-raises
TTSRaise ==
    /\ UNCHANGED <<managerVars, endpointVars, healthVars, concurrentVars>>
    /\ ppc = "tts"
    /\ calls' = calls \cup {"tts"}
    /\ ppc' = "aborted"
    /\ error' = [type |-> "RuntimeError", message |-> "Pipeline error", cause |-> "tts"]
    /\ UNCHANGED <<chunkerVars, user_input, conversation_history, messages, temp_files, timeline_ts, cur, frames>>

\* _process_lipsync is entered: NamedTemporaryFile(suffix=".wav", delete=False)
\* creates the temporary audio file
LipsyncStart ==
    /\ UNCHANGED <<managerVars, endpointVars, healthVars, concurrentVars>>
    /\ ppc = "lipsync"
    /\ temp_files' = temp_files + 1
    /\ ppc' = "lipsync_file"
    /\ UNCHANGED <<chunkerVars, user_input, conversation_history, messages, timeline_ts, cur, frames, calls, error>>

\* the invocation is cancelled while it awaits generate_blendshapes: CancelledError
\* passes the except clauses, the finally clause deletes the file, the locals are gone
CancelLipsync ==
    /\ UNCHANGED <<managerVars, endpointVars, healthVars, concurrentVars>>
    /\ ppc = "lipsync_file"
    /\ temp_files' = temp_files - 1
    /\ ppc' = "cancelled"
    /\ error' = [type |-> "CancelledError", message |-> "", cause |-> ""]
    /\ cur' = NoCur
    /\ UNCHANGED <<chunkerVars, user_input, conversation_history, messages, timeline_ts, frames, calls>>

\* lipsync treated as an essential stage: its failure aborts the stream
LipsyncEssential(outcome) ==
    /\ UNCHANGED <<managerVars, endpointVars, healthVars, concurrentVars>>
    /\ ppc = "lipsync_file"
    /\ temp_files' = temp_files - 1
    /\ calls' = IF outcome = "save_failed" THEN calls ELSE calls \cup {"lipsync"}
    /\ IF outcome \in {"save_failed", "raises"}
       THEN /\ ppc' = "aborted"
            /\ error' = [type |-> "RuntimeError", message |-> "Pipeline error", cause |-> "lipsync"]
            /\ UNCHANGED cur
       ELSE /\ cur' = [cur EXCEPT !.lipsync = outcome, !.blendshapes_dict = ProcessLipsync(outcome),
                          !.stages = IF outcome = "save_failed" THEN @ ELSE Append(@, "lipsync")]
            /\ ppc' = "sentiment"
            /\ UNCHANGED error
    /\ UNCHANGED <<chunkerVars, user_input, conversation_history, messages, timeline_ts, frames>>

\* a cleanup that is only done when the lipsync generator returned
LipsyncUnlinkOnSuccess(outcome) ==
    /\ UNCHANGED <<managerVars, endpointVars, healthVars, concurrentVars>>
    /\ ppc = "lipsync_file"
    /\ temp_files' = IF outcome \in {"shapes", "no_frames"} THEN temp_files - 1 ELSE temp_files
    /\ calls' = IF outcome = "save_failed" THEN calls ELSE calls \cup {"lipsync"}
    /\ cur' = [cur EXCEPT !.lipsync = outcome, !.blendshapes_dict = ProcessLipsync(outcome),
                          !.stages = IF outcome = "save_failed" THEN @ ELSE Append(@, "lipsync")]
    /\ ppc' = "sentiment"
    /\ UNCHANGED <<chunkerVars, user_input, conversation_history, messages, timeline_ts, frames, error>>

\* the rest of _process_lipsync: the audio is saved to the file, the lipsync generator
\* is awaited, and the finally clause deletes the file whatever happened
Lipsync(outcome) ==
    /\ UNCHANGED <<managerVars, endpointVars, healthVars, concurrentVars>>
    /\ ppc = "lipsync_file"
    /\ temp_files' = temp_files - 1
    /\ calls' = IF outcome = "save_failed" THEN calls ELSE calls \cup {"lipsync"}
    /\ cur' = [cur EXCEPT !.lipsync = outcome, !.blendshapes_dict = ProcessLipsync(outcome),
                          !.stages = IF outcome = "save_failed" THEN @ ELSE Append(@, "lipsync")]
    /\ ppc' = "sentiment"
    /\ UNCHANGED <<chunkerVars, user_input, conversation_history, messages, timeline_ts, frames, error>>

\* await self._detect_emotion(text_chunk)
Sentiment(outcome) ==
    /\ UNCHANGED <<managerVars, endpointVars, healthVars, concurrentVars>>
    /\ ppc = "sentiment"
    /\ calls' = calls \cup {"sentiment"}
    /\ cur' = [cur EXCEPT !.sentiment = outcome, !.emotion = DetectEmotion(outcome),
                          !.stages = Append(@, "sentiment")]
    /\ ppc' = "motion"
    /\ UNCHANGED <<chunkerVars, user_input, conversation_history, messages, temp_files, timeline_ts, frames, error>>

\* motion treated as an essential stage: its failure aborts the stream
MotionEssential(outcome) ==
    /\ UNCHANGED <<managerVars, endpointVars, healthVars, concurrentVars>>
    /\ ppc = "motion"
    /\ calls' = calls \cup {"motion"}
    /\ IF outcome = "raises"
       THEN /\ ppc' = "aborted"
            /\ error' = [type |-> "RuntimeError", message |-> "Pipeline error", cause |-> "motion"]
            /\ UNCHANGED <<cur, frames>>
       ELSE /\ cur' = [cur EXCEPT !.motion = outcome, !.stages = Append(@, "motion"),
                                  !.sentiment = "", !.emotion = ""]
            /\ frames' = Append(frames, AvatarFrame(timeline_ts, cur, ProcessMotion(outcome)))
            /\ ppc' = "yielded"
            /\ UNCHANGED error
    /\ UNCHANGED <<chunkerVars, user_input, conversation_history, messages, temp_files, timeline_ts>>

\* await self._process_motion(emotion=emotion, duration=duration), then the frame is
\* built and yielded; emotion is not used after the call and is forgotten here
Motion(outcome) ==
    /\ UNCHANGED <<managerVars, endpointVars, healthVars, concurrentVars>>
    /\ ppc = "motion"
    /\ calls' = calls \cup {"motion"}
    /\ cur' = [cur EXCEPT !.motion = outcome, !.stages = Append(@, "motion"),
                          !.sentiment = "", !.emotion = ""]
    /\ frames' = Append(frames, AvatarFrame(timeline_ts, cur, ProcessMotion(outcome)))
    /\ ppc' = "yielded"
    /\ UNCHANGED <<chunkerVars, user_input, conversation_history, messages, temp_files, timeline_ts, error>>

\* the generator is resumed after "yield frame": the timeline moves on and the next
\* chunk is asked of the language-model stream
ResumeAfterYield ==
    /\ ppc = "yielded"
    /\ timeline_ts' = AdvanceTimeline(timeline_ts, cur.duration)
    /\ cur' = NoCur
    /\ ppc' = "llm"
    /\ UNCHANGED <<chunkerVars, user_input, conversation_history, messages, temp_files, frames, calls, error>>

\* a resumed generator that synthesizes the chunk it has just yielded once more
NextFrameSameChunk ==
    /\ UNCHANGED <<managerVars, endpointVars, healthVars, concurrentVars>>
    /\ ppc = "yielded"
    /\ timeline_ts' = AdvanceTimeline(timeline_ts, cur.duration)
    /\ cur' = [NoCur EXCEPT !.text_chunk = cur.text_chunk]
    /\ ppc' = "tts"
    /\ UNCHANGED <<chunkerVars, user_input, conversation_history, messages, temp_files, frames, calls, error>>

\* the consumer asks for the next frame
NextFrame ==
    /\ UNCHANGED <<managerVars, endpointVars, healthVars, concurrentVars>>
    /\ ResumeAfterYield

\* a consumer whose departure lets the suspended generator run on past the yield
AbandonAfterResume ==
    /\ UNCHANGED <<managerVars, endpointVars, healthVars, concurrentVars>>
    /\ ppc = "yielded"
    /\ timeline_ts' = AdvanceTimeline(timeline_ts, cur.duration)
    /\ cur' = NoCur
    /\ ppc' = "abandoned"
    /\ UNCHANGED <<chunkerVars, user_input, conversation_history, messages, temp_files, frames, calls, error>>

\* the consumer stops iterating after a frame: the generator is closed where it is
\* suspended, at "yield frame" (GeneratorExit passes the except clause), and its
\* locals are gone
Abandon ==
    /\ UNCHANGED <<managerVars, endpointVars, healthVars, concurrentVars>>
    /\ ppc = "yielded"
    /\ cur' = NoCur
    /\ ppc' = "abandoned"
    /\ UNCHANGED <<chunkerVars, user_input, conversation_history, messages, temp_files, timeline_ts, frames, calls, error>>


-----------------------------------------------------------------------------
(* StreamingManager                                                        *)

\* manager operations (subscribe, unsubscribe, broadcast) explored in one run
MaxManagerOps == 5

Observers == {"o1", "o2", "o3"}

Range(seq) == {seq[i] : i \in 1..Len(seq)}

\* list.remove(x): drops the first occurrence of x
RemoveFirst(seq, x) ==
    LET k == CHOOSE i \in 1..Len(seq) : seq[i] = x /\ \A j \in 1..(i - 1) : seq[j] # x
    IN SubSeq(seq, 1, k - 1) \o SubSeq(seq, k + 1, Len(seq))

\* subscribe without the membership test
SubscribeAlways(obs, o) == Append(obs, o)

\* subscribe(observer): the new value of self._observers
SubscribeTo(obs, o) == IF o \notin Range(obs) THEN Append(obs, o) ELSE obs

\* unsubscribe(observer): the new value of self._observers
UnsubscribeFrom(obs, o) == IF o \in Range(obs) THEN RemoveFirst(obs, o) ELSE obs

\* an except clause that logs and leaves the observer subscribed
AfterDeliveryKeeps(obs, o, raised) == obs

\* the except clause of broadcast: a raising observer is unsubscribed
AfterDelivery(obs, o, raised) == IF raised THEN UnsubscribeFrom(obs, o) ELSE obs

\* get_observer_count(): len(self._observers)
GetObserverCount(obs) == Len(obs)

\* the argument of the observers of broadcast: the frame, known by its number
FrameArgument(n) == [frame |-> n]

\* error_payload = {"type": "error", "message": error_message}
ErrorPayload(error_message) == [type |-> "error", message |-> error_message]

\* no broadcast_error is in progress
NoPayload == [type |-> "none"]

ErrorMessages == {"LLM stream failed", "TTS failed"}

\* the last call: the operation, its observer, and whether it was subscribed then
ManagerCall(op, o, present) == [op |-> op, observer |-> o, present |-> present]

\* subscribe(o), from any task or from an observer callback
Subscribe(o) ==
    /\ UNCHANGED <<chunkerVars, pipelineVars, endpointVars, healthVars, concurrentVars, taskVars>>
    /\ ops_left > 0
    /\ ops_left' = ops_left - 1
    /\ observers' = SubscribeTo(observers, o)
    /\ lastCall' = ManagerCall("subscribe", o, o \in Range(observers))
    /\ UNCHANGED <<bpc, snapshot, bidx, bframe, error_payload, delivered>>

\* unsubscribe(o), from any task or from an observer callback
Unsubscribe(o) ==
    /\ UNCHANGED <<chunkerVars, pipelineVars, endpointVars, healthVars, concurrentVars, taskVars>>
    /\ ops_left > 0
    /\ ops_left' = ops_left - 1
    /\ observers' = UnsubscribeFrom(observers, o)
    /\ lastCall' = ManagerCall("unsubscribe", o, o \in Range(observers))
    /\ UNCHANGED <<bpc, snapshot, bidx, bframe, error_payload, delivered>>

\* broadcast(frame) is called: it returns at once without observers, else it takes
\* the snapshot it iterates
BroadcastStart ==
    /\ UNCHANGED <<chunkerVars, pipelineVars, endpointVars, healthVars, concurrentVars, taskVars>>
    /\ bpc = "idle"
    /\ ops_left > 0
    /\ ops_left' = ops_left - 1
    /\ bframe' = bframe + 1
    /\ error_payload' = NoPayload
    /\ delivered' = <<>>
    /\ snapshot' = observers
    /\ bidx' = 1
    /\ bpc' = IF observers = <<>> THEN "idle" ELSE "delivering"
    /\ lastCall' = ManagerCall("broadcast", "", FALSE)
    /\ UNCHANGED observers

\* broadcast_error(error_message) is called: it returns at once without observers,
\* else it builds the payload and takes the snapshot it iterates
BroadcastErrorStart(error_message) ==
    /\ UNCHANGED <<chunkerVars, pipelineVars, endpointVars, healthVars, concurrentVars, taskVars>>
    /\ bpc = "idle"
    /\ ops_left > 0
    /\ ops_left' = ops_left - 1
    /\ bframe' = bframe + 1
    /\ error_payload' = IF observers = <<>> THEN NoPayload ELSE ErrorPayload(error_message)
    /\ delivered' = <<>>
    /\ snapshot' = observers
    /\ bidx' = 1
    /\ bpc' = IF observers = <<>> THEN "idle" ELSE "delivering_error"
    /\ lastCall' = ManagerCall("broadcast_error", "", FALSE)
    /\ UNCHANGED observers

\* a broadcast whose loop ends at the first observer that raises
DeliverUntilFailure(raised) ==
    /\ UNCHANGED <<chunkerVars, pipelineVars, endpointVars, healthVars, concurrentVars, taskVars>>
    /\ bpc = "delivering"
    /\ LET o == snapshot[bidx] IN
       /\ delivered' = Append(delivered, [observer |-> o, frame |-> bframe, raised |-> raised,
                       payload |-> FrameArgument(bframe)])
       /\ observers' = AfterDelivery(observers, o, raised)
       /\ lastCall' = ManagerCall("deliver", o, o \in Range(observers))
    /\ bidx' = bidx + 1
    /\ bpc' = IF bidx = Len(snapshot) \/ raised THEN "idle" ELSE "delivering"
    /\ UNCHANGED <<snapshot, bframe, error_payload, ops_left>>

\* a broadcast loop that walks self._observers itself instead of a copy of it
DeliverLive(raised) ==
    /\ UNCHANGED <<chunkerVars, pipelineVars, endpointVars, healthVars, concurrentVars, taskVars>>
    /\ bpc = "delivering"
    /\ IF bidx > Len(observers)
       THEN /\ bpc' = "idle"
            /\ UNCHANGED <<observers, delivered, lastCall, bidx>>
       ELSE /\ LET o == observers[bidx] IN
               /\ delivered' = Append(delivered, [observer |-> o, frame |-> bframe, raised |-> raised,
                       payload |-> FrameArgument(bframe)])
               /\ observers' = AfterDelivery(observers, o, raised)
               /\ lastCall' = ManagerCall("deliver", o, TRUE)
            /\ bidx' = bidx + 1
            /\ bpc' = "delivering"
    /\ UNCHANGED <<snapshot, bframe, error_payload, ops_left>>

\* one iteration of the loop of broadcast: the observer is called (and awaited);
\* the broadcast returns after the last observer of the snapshot
Deliver(raised) ==
    /\ UNCHANGED <<chunkerVars, pipelineVars, endpointVars, healthVars, concurrentVars, taskVars>>
    /\ bpc = "delivering"
    /\ LET o == snapshot[bidx] IN
       /\ delivered' = Append(delivered, [observer |-> o, frame |-> bframe, raised |-> raised,
                       payload |-> FrameArgument(bframe)])
       /\ observers' = AfterDelivery(observers, o, raised)
       /\ lastCall' = ManagerCall("deliver", o, o \in Range(observers))
    /\ bidx' = bidx + 1
    /\ bpc' = IF bidx = Len(snapshot) THEN "idle" ELSE "delivering"
    /\ UNCHANGED <<snapshot, bframe, error_payload, ops_left>>

\* an error broadcast that lets the exception of an observer reach its caller
DeliverErrorPropagating(raised) ==
    /\ UNCHANGED <<chunkerVars, pipelineVars, endpointVars, healthVars, concurrentVars, taskVars>>
    /\ bpc = "delivering_error"
    /\ LET o == snapshot[bidx] IN
       /\ delivered' = Append(delivered, [observer |-> o, frame |-> bframe, raised |-> raised,
                                          payload |-> error_payload])
       /\ lastCall' = ManagerCall("deliver", o, o \in Range(observers))
    /\ bidx' = bidx + 1
    /\ bpc' = IF raised THEN "raised" ELSE IF bidx = Len(snapshot) THEN "idle" ELSE "delivering_error"
    /\ UNCHANGED <<observers, snapshot, bframe, error_payload, ops_left>>

\* an error broadcast that keeps the observers that raised subscribed
DeliverErrorKeepsObserver(raised) ==
    /\ UNCHANGED <<chunkerVars, pipelineVars, endpointVars, healthVars, concurrentVars, taskVars>>
    /\ bpc = "delivering_error"
    /\ LET o == snapshot[bidx] IN
       /\ delivered' = Append(delivered, [observer |-> o, frame |-> bframe, raised |-> raised,
                                          payload |-> error_payload])
       /\ lastCall' = ManagerCall("deliver", o, o \in Range(observers))
    /\ bidx' = bidx + 1
    /\ bpc' = IF bidx = Len(snapshot) THEN "idle" ELSE "delivering_error"
    /\ UNCHANGED <<observers, snapshot, bframe, error_payload, ops_left>>

\* one iteration of the loop of broadcast_error: the observer is called with the
\* payload (and awaited); an exception is logged and the observer unsubscribed
DeliverError(raised) ==
    /\ UNCHANGED <<chunkerVars, pipelineVars, endpointVars, healthVars, concurrentVars, taskVars>>
    /\ bpc = "delivering_error"
    /\ LET o == snapshot[bidx] IN
       /\ delivered' = Append(delivered, [observer |-> o, frame |-> bframe, raised |-> raised,
                                          payload |-> error_payload])
       /\ observers' = AfterDelivery(observers, o, raised)
       /\ lastCall' = ManagerCall("deliver", o, o \in Range(observers))
    /\ bidx' = bidx + 1
    /\ bpc' = IF bidx = Len(snapshot) THEN "idle" ELSE "delivering_error"
    /\ UNCHANGED <<snapshot, bframe, error_payload, ops_left>>

\* the tasks that call broadcast on one manager
Callers == {"t1", "t2"}

\* a caller that has not called broadcast
NoBroadcast == [pc |-> "idle", snapshot |-> <<>>, idx |-> 1, frame |-> 0]

\* the number of broadcast calls started so far
Started == Cardinality({t \in Callers : tasks[t].pc # "idle"})

\* the event loop runs one task at a time: a task inside the loop of broadcast keeps
\* running until it awaits an observer that suspends, or returns
OthersSuspended(t) == \A u \in Callers \ {t} : tasks[u].pc # "calling"

\* what an observer call does: return or raise without suspending, or suspend
CallOutcomes == {"returns", "raises", "suspends"}

\* the end of one iteration of the loop: the next observer of the snapshot, or return
NextIteration(b) ==
    [b EXCEPT !.idx = b.idx + 1,
              !.pc = IF b.idx = Len(b.snapshot) THEN "returned" ELSE "calling"]

\* the record of an observer call that began or ended
CallEvent(kind, o, frame) == [kind |-> kind, observer |-> o, frame |-> frame]

\* a task calls broadcast(frame): lines 58-61, up to the snapshot
TaskBroadcast(t) ==
    /\ UNCHANGED <<chunkerVars, pipelineVars, endpointVars, healthVars, concurrentVars>>
    /\ tasks[t].pc = "idle"
    /\ OthersSuspended(t)
    /\ tasks' = [tasks EXCEPT ![t] =
                    [pc |-> IF observers = <<>> THEN "returned" ELSE "calling",
                     snapshot |-> observers, idx |-> 1, frame |-> Started + 1]]
    /\ UNCHANGED <<observers, bpc, snapshot, bidx, bframe, error_payload, delivered, lastCall,
                   ops_left, received>>

\* result = observer(frame), and await result when it is awaitable: the observer
\* returns or raises at once, or the task is suspended in the await
TaskCall(t, outcome) ==
    /\ UNCHANGED <<chunkerVars, pipelineVars, endpointVars, healthVars, concurrentVars>>
    /\ tasks[t].pc = "calling"
    /\ LET b == tasks[t]
           o == b.snapshot[b.idx]
       IN IF outcome = "suspends"
          THEN /\ tasks' = [tasks EXCEPT ![t].pc = "awaiting"]
               /\ received' = Append(received, CallEvent("begin", o, b.frame))
               /\ UNCHANGED observers
          ELSE /\ tasks' = [tasks EXCEPT ![t] = NextIteration(b)]
               /\ received' = received \o <<CallEvent("begin", o, b.frame), CallEvent("end", o, b.frame)>>
               /\ observers' = AfterDelivery(observers, o, outcome = "raises")
    /\ UNCHANGED <<bpc, snapshot, bidx, bframe, error_payload, delivered, lastCall, ops_left>>

\* the awaited observer finishes, by returning or by raising, and the loop goes on
TaskResume(t, raised) ==
    /\ UNCHANGED <<chunkerVars, pipelineVars, endpointVars, healthVars, concurrentVars>>
    /\ tasks[t].pc = "awaiting"
    /\ OthersSuspended(t)
    /\ LET b == tasks[t]
           o == b.snapshot[b.idx]
       IN /\ tasks' = [tasks EXCEPT ![t] = NextIteration(b)]
          /\ received' = Append(received, CallEvent("end", o, b.frame))
          /\ observers' = AfterDelivery(observers, o, raised)
    /\ UNCHANGED <<bpc, snapshot, bidx, bframe, error_payload, delivered, lastCall, ops_left>>

-----------------------------------------------------------------------------
(* stream_endpoint: the WebSocket handler that consumes process            *)

\* the "type" of a received JSON message
RequestTypes == {"chat", "ping"}

\* {"type": "error", "message": ...}
ErrorMessage(text) == [type |-> "error", message |-> text]

\* {"type": "done", "full_text": ..., "total_duration": ...}
DoneMessage(text, duration) == [type |-> "done", full_text |-> text, total_duration |-> duration]

\* the payload built for a frame; a key the handler leaves out is None
FramePayload(f) ==
    [type |-> "frame",
     timestamp |-> f.timestamp,
     text_chunk |-> IF f.text_chunk # <<>> THEN Some(f.text_chunk) ELSE None,
     audio_chunk |-> Some(f.audio_chunk),
     blendshapes |-> f.blendshapes,
     motion |-> f.motion]

\* receive_json returns: a new request begins and what belonged to the request
\* before it is gone
StreamReceive ==
    /\ UNCHANGED <<managerVars, healthVars, concurrentVars, chatVars>>
    /\ wpc = "receiving"
    /\ wpc' = "received"
    /\ mode' = "unset"
    /\ max_words' = 0
    /\ min_words' = 0
    /\ buffer' = <<>>
    /\ total_chunks_yielded' = 0
    /\ cpc' = "idle"
    /\ stream_left' = 0
    /\ fed' = <<>>
    /\ chunks' = <<>>
    /\ fresh' = FreshChunker
    /\ ppc' = "idle"
    /\ user_input' = [len |-> 0, blank |-> TRUE]
    /\ conversation_history' = None
    /\ messages' = <<>>
    /\ timeline_ts' = 0
    /\ cur' = NoCur
    /\ frames' = <<>>
    /\ calls' = {}
    /\ error' = NoError
    /\ temp_files' = 0
    /\ sent' = <<>>
    /\ full_text' = <<>>
    /\ total_duration' = 0

\* the received message is looked at: it is refused with an "error" message, or
\* pipeline.process(user_input=message) is called
StreamRequest(type, input) ==
    /\ UNCHANGED <<chunkerVars, managerVars, healthVars, concurrentVars, chatVars>>
    /\ wpc = "received"
    /\ IF type # "chat"
       THEN /\ sent' = <<ErrorMessage("Invalid message type")>>
            /\ wpc' = "receiving"
            /\ UNCHANGED <<ppc, user_input>>
       ELSE IF input.len = 0
       THEN /\ sent' = <<ErrorMessage("Empty message")>>
            /\ wpc' = "receiving"
            /\ UNCHANGED <<ppc, user_input>>
       ELSE /\ sent' = <<>>
            /\ ppc' = "start"
            /\ user_input' = input
            /\ wpc' = "streaming"
    /\ UNCHANGED <<conversation_history, messages, timeline_ts, cur, frames, calls, error, temp_files,
                   full_text, total_duration>>

\* a handler that ends without telling the client what went wrong
StreamErrorSilent ==
    /\ UNCHANGED <<chunkerVars, pipelineVars, managerVars, healthVars, concurrentVars, chatVars>>
    /\ wpc = "streaming"
    /\ ppc \in {"failed", "aborted"}
    /\ wpc' = "closed"
    /\ UNCHANGED <<sent, full_text, total_duration>>

\* process raised: the except clause sends an "error" message and the handler returns
StreamError ==
    /\ UNCHANGED <<chunkerVars, pipelineVars, managerVars, healthVars, concurrentVars, chatVars>>
    /\ wpc = "streaming"
    /\ ppc \in {"failed", "aborted"}
    /\ sent' = Append(sent, ErrorMessage(error.message))
    /\ wpc' = "closed"
    /\ UNCHANGED <<full_text, total_duration>>

\* the body of "async for frame in pipeline.process(...)": the frame is sent, then
\* the generator is resumed
StreamFrame ==
    /\ UNCHANGED <<managerVars, healthVars, concurrentVars, chatVars>>
    /\ wpc = "streaming"
    /\ ResumeAfterYield
    /\ LET f == frames[Len(frames)] IN
       /\ sent' = Append(sent, FramePayload(f))
       /\ full_text' = full_text \o f.text_chunk
       /\ total_duration' = f.timestamp
    /\ UNCHANGED wpc

\* process is exhausted: "done" is sent and the handler waits for the next request
StreamDone ==
    /\ UNCHANGED <<chunkerVars, pipelineVars, managerVars, healthVars, concurrentVars, chatVars>>
    /\ wpc = "streaming"
    /\ ppc = "completed"
    /\ sent' = Append(sent, DoneMessage(full_text, total_duration))
    /\ wpc' = "receiving"
    /\ UNCHANGED <<full_text, total_duration>>

\* the client goes away: receive_json or send_json raises WebSocketDisconnect and
\* the handler returns without sending anything; its locals and the generator of
\* process are dropped
StreamDisconnect ==
    /\ UNCHANGED <<managerVars, healthVars, concurrentVars, chatVars>>
    /\ \/ wpc = "receiving"
       \/ wpc = "streaming" /\ ppc \in {"yielded", "completed", "failed", "aborted"}
    /\ wpc' = "disconnected"
    /\ mode' = "unset"
    /\ max_words' = 0
    /\ min_words' = 0
    /\ buffer' = <<>>
    /\ total_chunks_yielded' = 0
    /\ cpc' = "idle"
    /\ stream_left' = 0
    /\ fed' = <<>>
    /\ chunks' = <<>>
    /\ fresh' = FreshChunker
    /\ ppc' = "idle"
    /\ user_input' = [len |-> 0, blank |-> TRUE]
    /\ conversation_history' = None
    /\ messages' = <<>>
    /\ timeline_ts' = 0
    /\ cur' = NoCur
    /\ frames' = <<>>
    /\ calls' = {}
    /\ error' = NoError
    /\ temp_files' = 0
    /\ sent' = <<>>
    /\ full_text' = <<>>
    /\ total_duration' = 0

-----------------------------------------------------------------------------
(* chat_endpoint: the POST handler that gathers the frames of process      *)

NoResponse == [kind |-> "none"]

\* duration=len(all_audio_bytes) * 1.0: the number of gathered pieces of audio
ChatDuration(audio) == Len(audio) * 1

\* ChatResponse(full_text=..., audio=..., blendshapes=..., motion=...): the merged
\* audio is the pieces in order with the duration the handler gives it, the tracks
\* are the gathered entries
ChatResponse(texts, audio, blendshapes, motion) ==
    [kind |-> "ChatResponse", full_text |-> Join(texts), audio |-> audio,
     duration |-> ChatDuration(audio), blendshapes |-> blendshapes, motion |-> motion]

\* HTTPException(status_code=..., detail=...)
HTTPException(status_code, detail) ==
    [kind |-> "HTTPException", status_code |-> status_code, detail |-> detail]

\* the two except clauses: a ValueError is answered 400 with its text, any other
\* exception 500 with a fixed text
ChatFailure(e) ==
    IF e.type = "ValueError" THEN HTTPException(400, e.message)
    ELSE HTTPException(500, "Internal server error during chat processing")

\* {"timestamp": frame.timestamp, ...: value}: an entry of a gathered track
TrackEntry(ts, value) == [timestamp |-> ts, value |-> value]

\* the body of "async for frame in pipeline.process(...)": what the frame carries
\* is gathered, then the generator is resumed (a piece of audio the handler skips
\* for being empty adds nothing to the merged bytes)
ChatFrame ==
    /\ UNCHANGED <<managerVars, healthVars, concurrentVars, wpc, sent, full_text, total_duration>>
    /\ rpc = "running"
    /\ ResumeAfterYield
    /\ LET frame == frames[Len(frames)] IN
       /\ full_text_chunks' = IF frame.text_chunk # <<>>
                               THEN Append(full_text_chunks, frame.text_chunk)
                               ELSE full_text_chunks
       /\ all_audio_bytes' = Append(all_audio_bytes, frame.audio_chunk)
       /\ all_blendshapes' = IF frame.blendshapes # None
                              THEN Append(all_blendshapes, TrackEntry(frame.timestamp, frame.blendshapes.value))
                              ELSE all_blendshapes
       /\ all_motion' = IF frame.motion # None
                         THEN Append(all_motion, TrackEntry(frame.timestamp, frame.motion.value))
                         ELSE all_motion
    /\ UNCHANGED <<rpc, response>>

\* process is exhausted: the gathered parts are merged and returned
ChatRespond ==
    /\ UNCHANGED <<chunkerVars, pipelineVars, managerVars, healthVars, concurrentVars, wpc, sent, full_text, total_duration>>
    /\ rpc = "running"
    /\ ppc = "completed"
    /\ response' = ChatResponse(full_text_chunks, all_audio_bytes, all_blendshapes, all_motion)
    /\ rpc' = "responded"
    /\ UNCHANGED <<full_text_chunks, all_audio_bytes, all_blendshapes, all_motion>>

\* a handler that answers with what it gathered when process raises
ChatErrorPartial ==
    /\ UNCHANGED <<chunkerVars, pipelineVars, managerVars, healthVars, concurrentVars, wpc, sent, full_text, total_duration>>
    /\ rpc = "running"
    /\ ppc \in {"failed", "aborted"}
    /\ response' = IF full_text_chunks = <<>> THEN ChatFailure(error)
                   ELSE ChatResponse(full_text_chunks, all_audio_bytes, all_blendshapes, all_motion)
    /\ rpc' = IF full_text_chunks = <<>> THEN "errored" ELSE "responded"
    /\ UNCHANGED <<full_text_chunks, all_audio_bytes, all_blendshapes, all_motion>>

\* process raised: an except clause turns the exception into an HTTPException
ChatError ==
    /\ UNCHANGED <<chunkerVars, pipelineVars, managerVars, healthVars, concurrentVars, wpc, sent, full_text, total_duration>>
    /\ rpc = "running"
    /\ ppc \in {"failed", "aborted"}
    /\ response' = ChatFailure(error)
    /\ rpc' = "errored"
    /\ UNCHANGED <<full_text_chunks, all_audio_bytes, all_blendshapes, all_motion>>

-----------------------------------------------------------------------------
(* AvatarPipeline.healthcheck                                              *)

\* the components in the order in which healthcheck probes them
ComponentOrder == <<"llm", "tts", "lipsync", "motion">>

Components == {ComponentOrder[i] : i \in 1..Len(ComponentOrder)}

\* what a component offers as healthcheck / health_check: nothing, a method that
\* returns a truthy or falsy value or raises, or one whose awaitable does
ProbeBehaviours ==
    {"absent", "returns_true", "returns_false", "raises", "awaits_true", "awaits_raises"}

\* _check(component, name)
CheckProbe(probe) ==
    IF probe = "absent" THEN TRUE
    ELSE IF probe \in {"raises", "awaits_raises"} THEN FALSE
    ELSE probe \in {"returns_true", "awaits_true"}

\* a healthcheck that reports every component after a failed one as unhealthy
HealthProbeFailFast ==
    /\ UNCHANGED <<chunkerVars, pipelineVars, managerVars, endpointVars, concurrentVars>>
    /\ hpc = "checking"
    /\ Cardinality(health) < Len(ComponentOrder)
    /\ LET name == ComponentOrder[Cardinality(health) + 1] IN
       health' = health \cup {<<name, CheckProbe(probes[name]) /\ \A p \in health : p[2]>>}
    /\ UNCHANGED <<hpc, probes>>

\* one entry of the returned dict is evaluated: await _check(component, name)
HealthProbe ==
    /\ UNCHANGED <<chunkerVars, pipelineVars, managerVars, endpointVars, concurrentVars>>
    /\ hpc = "checking"
    /\ Cardinality(health) < Len(ComponentOrder)
    /\ LET name == ComponentOrder[Cardinality(health) + 1] IN
       health' = health \cup {<<name, CheckProbe(probes[name])>>}
    /\ UNCHANGED <<hpc, probes>>

\* the dict is complete and returned
HealthReturn ==
    /\ UNCHANGED <<chunkerVars, pipelineVars, managerVars, endpointVars, concurrentVars>>
    /\ hpc = "checking"
    /\ Cardinality(health) = Len(ComponentOrder)
    /\ hpc' = "returned"
    /\ UNCHANGED <<health, probes>>

-----------------------------------------------------------------------------
(* Two process invocations on the one AvatarPipeline of get_pipeline        *)

\* the invocations running at the same time
Invocations == {1, 2}

\* durations the synthesizer reports to the first and to the second invocation
ConcurrentDurations == <<{1}, {1, 2}>>

\* a chunker kept in the pipeline instance and used by every invocation
ChunkerOfPipeline(i) == 1

\* chunker = TextChunker(...) in _process_llm_stream: every invocation builds its own
ChunkerOf(i) == i

\* the locals of an invocation that passed the validation and has opened its
\* language-model stream: timeline_ts = 0.0, an empty chunker buffer
InvocationStarted ==
    [pc |-> "llm", buffer |-> <<>>, timeline_ts |-> 0, text_chunk |-> <<>>, ended |-> FALSE,
     tokens |-> <<>>, durations |-> <<>>, frames |-> <<>>]

\* no invocation is running
NoInvocation == [InvocationStarted EXCEPT !.pc = "absent"]

\* the language model hands invocation i a token; its chunker may yield a chunk
InvocationToken(i, token) ==
    /\ UNCHANGED <<chunkerVars, pipelineVars, managerVars, endpointVars, healthVars>>
    /\ invocations[i].pc = "llm"
    /\ Len(invocations[i].tokens) < MaxLLMTokens
    /\ LET c == ChunkerOf(i)
           r == FeedToken("hybrid", invocations[c].buffer, PipelineChunkerConfig.max_words,
                          PipelineChunkerConfig.min_words, token)
       IN invocations' = [invocations EXCEPT
                             ![c].buffer = r.buffer,
                             ![i].tokens = Append(@, token),
                             ![i].text_chunk = IF r.yield THEN r.chunk ELSE @,
                             ![i].pc = IF r.yield THEN "tts" ELSE "llm"]

\* the language-model stream of invocation i ends: final flush, or completion
InvocationEnd(i) ==
    /\ UNCHANGED <<chunkerVars, pipelineVars, managerVars, endpointVars, healthVars>>
    /\ invocations[i].pc = "llm"
    /\ LET buf == invocations[ChunkerOf(i)].buffer IN
       invocations' = [invocations EXCEPT
                          ![i].ended = TRUE,
                          ![i].text_chunk = IF FlushYields(buf) THEN FinalChunk(buf) ELSE @,
                          ![i].pc = IF FlushYields(buf) THEN "tts" ELSE "completed"]

\* the synthesizer returns the audio of the chunk of invocation i
InvocationSynthesize(i, duration) ==
    /\ UNCHANGED <<chunkerVars, pipelineVars, managerVars, endpointVars, healthVars>>
    /\ invocations[i].pc = "tts"
    /\ invocations' = [invocations EXCEPT ![i].durations = Append(@, duration),
                                          ![i].pc = "animating"]

\* lipsync, sentiment and motion have returned: invocation i yields its frame
InvocationFrame(i) ==
    /\ UNCHANGED <<chunkerVars, pipelineVars, managerVars, endpointVars, healthVars>>
    /\ invocations[i].pc = "animating"
    /\ invocations' = [invocations EXCEPT
                          ![i].frames = Append(@, [timestamp |-> invocations[i].timeline_ts,
                                                   text_chunk |-> invocations[i].text_chunk]),
                          ![i].pc = "yielded"]

\* the consumer of invocation i resumes it: the timeline moves on, and after the
\* final chunk the buffer is cleared and the invocation ends
InvocationResume(i) ==
    /\ UNCHANGED <<chunkerVars, pipelineVars, managerVars, endpointVars, healthVars>>
    /\ invocations[i].pc = "yielded"
    /\ LET inv == invocations[i]
           c == ChunkerOf(i)
       IN invocations' = [invocations EXCEPT
                             ![c].buffer = IF inv.ended THEN <<>> ELSE @,
                             ![i].timeline_ts = AdvanceTimeline(@, inv.durations[Len(inv.durations)]),
                             ![i].pc = IF inv.ended THEN "completed" ELSE "llm"]

-----------------------------------------------------------------------------
(* Specifications                                                          *)

PipelineAbsent ==
    /\ ppc = "idle"
    /\ user_input = [len |-> 0, blank |-> TRUE]
    /\ conversation_history = None
    /\ messages = <<>>
    /\ timeline_ts = 0
    /\ cur = NoCur
    /\ frames = <<>>
    /\ calls = {}
    /\ error = NoError
    /\ temp_files = 0

ChatAbsent ==
    /\ rpc = "absent"
    /\ full_text_chunks = <<>>
    /\ all_audio_bytes = <<>>
    /\ all_blendshapes = <<>>
    /\ all_motion = <<>>
    /\ response = NoResponse

EndpointAbsent ==
    /\ wpc = "absent"
    /\ sent = <<>>
    /\ full_text = <<>>
    /\ total_duration = 0
    /\ ChatAbsent

InvocationsAbsent == invocations = [i \in Invocations |-> NoInvocation]

HealthAbsent ==
    /\ hpc = "idle"
    /\ probes = <<>>
    /\ health = {}

ManagerAbsent ==
    /\ observers = <<>>
    /\ bpc = "idle"
    /\ snapshot = <<>>
    /\ bidx = 1
    /\ bframe = 0
    /\ error_payload = NoPayload
    /\ delivered = <<>>
    /\ lastCall = ManagerCall("none", "", FALSE)
    /\ ops_left = 0
    /\ tasks = [t \in Callers |-> NoBroadcast]
    /\ received = <<>>

\* process(user_input) has been called; nothing has run yet
Init ==
    /\ ChunkerAbsent
    /\ ManagerAbsent
    /\ EndpointAbsent
    /\ HealthAbsent
    /\ InvocationsAbsent
    /\ ppc = "start"
    /\ user_input \in Inputs
    /\ conversation_history = None
    /\ messages = <<>>
    /\ timeline_ts = 0
    /\ cur = NoCur
    /\ frames = <<>>
    /\ calls = {}
    /\ error = NoError
    /\ temp_files = 0

Next ==
    \/ Validate
    \/ \E token \in PipelineTokens : LLMToken(token)
    \/ LLMEnd
    \/ LLMRaise
    \/ \E d \in Durations : TTSReturn(d)
    \/ TTSRaise
    \/ LipsyncStart
    \/ CancelLipsync
    \/ \E outcome \in LipsyncOutcomes : Lipsync(outcome)
    \/ \E outcome \in SentimentOutcomes : Sentiment(outcome)
    \/ \E outcome \in MotionOutcomes : Motion(outcome)
    \/ NextFrame
    \/ Abandon

Spec == Init /\ [][Next]_vars

\* an invocation whose consumer takes every frame and is never cancelled; every
\* stage returns in one way or raises
NextConsumed ==
    \/ Validate
    \/ \E token \in PipelineTokens : LLMToken(token)
    \/ LLMEnd
    \/ LLMRaise
    \/ \E d \in {1} : TTSReturn(d)
    \/ TTSRaise
    \/ LipsyncStart
    \/ \E outcome \in {"shapes", "raises"} : Lipsync(outcome)
    \/ \E outcome \in {"angry", "raises"} : Sentiment(outcome)
    \/ \E outcome \in {"keyframes", "raises"} : Motion(outcome)
    \/ NextFrame

\* the generator runs when it is called, the token stream ends or raises, every
\* capability call returns or raises, and the consumer resumes the generator after
\* every frame
SpecConsumed ==
    /\ Init
    /\ [][NextConsumed]_vars
    /\ WF_vars(Validate)
    /\ WF_vars(LLMEnd \/ LLMRaise)
    /\ WF_vars(TTSRaise \/ \E d \in {1} : TTSReturn(d))
    /\ WF_vars(LipsyncStart)
    /\ WF_vars(\E outcome \in {"shapes", "raises"} : Lipsync(outcome))
    /\ WF_vars(\E outcome \in {"angry", "raises"} : Sentiment(outcome))
    /\ WF_vars(\E outcome \in {"keyframes", "raises"} : Motion(outcome))
    /\ WF_vars(NextFrame)

\* a TextChunker of any mode and configuration consuming a token stream
InitChunker ==
    /\ \E m \in Modes, cfg \in ChunkerConfigs : ChunkerCreated(m, cfg, MaxTokens)
    /\ PipelineAbsent
    /\ ManagerAbsent
    /\ EndpointAbsent
    /\ HealthAbsent
    /\ InvocationsAbsent

\* process_stream consumes one token
Feed(token) == ChunkerFeed(token) /\ UNCHANGED <<pipelineVars, managerVars, endpointVars, healthVars, concurrentVars>>

\* process_stream finds its token stream exhausted
Flush == ChunkerFlush /\ UNCHANGED <<pipelineVars, managerVars, endpointVars, healthVars, concurrentVars>>

\* process_stream is resumed after its final chunk
Finish == ChunkerResume /\ UNCHANGED <<pipelineVars, managerVars, endpointVars, healthVars, concurrentVars>>

NextChunker ==
    \/ \E token \in ChunkerTokens : Feed(token)
    \/ Flush
    \/ Finish

SpecChunker == InitChunker /\ [][NextChunker]_vars

\* process_stream stops early
Stop == ChunkerStop /\ UNCHANGED <<pipelineVars, managerVars, endpointVars, healthVars, concurrentVars>>

\* reset() is called
Reset == ChunkerReset /\ UNCHANGED <<pipelineVars, managerVars, endpointVars, healthVars, concurrentVars>>

\* process_stream is called on the instance again
StreamAgain == ChunkerStreamAgain /\ UNCHANGED <<pipelineVars, managerVars, endpointVars, healthVars, concurrentVars>>

\* one TextChunker instance used for a stream, reset, and used for another stream
NextReset ==
    \/ \E token \in ChunkerTokens : Feed(token)
    \/ Flush
    \/ Finish
    \/ Stop
    \/ Reset
    \/ StreamAgain

SpecReset == InitChunker /\ [][NextReset]_vars

\* two invocations of process on one pipeline, both past the validation
InitConcurrent ==
    /\ ChunkerAbsent
    /\ PipelineAbsent
    /\ ManagerAbsent
    /\ EndpointAbsent
    /\ HealthAbsent
    /\ invocations = [i \in Invocations |-> InvocationStarted]

NextConcurrent ==
    \/ \E i \in Invocations, token \in PipelineTokens : InvocationToken(i, token)
    \/ \E i \in Invocations : InvocationEnd(i)
    \/ \E i \in Invocations : \E duration \in ConcurrentDurations[i] : InvocationSynthesize(i, duration)
    \/ \E i \in Invocations : InvocationFrame(i)
    \/ \E i \in Invocations : InvocationResume(i)

SpecConcurrent == InitConcurrent /\ [][NextConcurrent]_vars

\* an accepted WebSocket session waiting for its first message
InitStream ==
    /\ ChunkerAbsent
    /\ PipelineAbsent
    /\ ManagerAbsent
    /\ HealthAbsent
    /\ InvocationsAbsent
    /\ wpc = "receiving"
    /\ sent = <<>>
    /\ full_text = <<>>
    /\ total_duration = 0
    /\ ChatAbsent

NextStream ==
    \/ StreamReceive
    \/ \E type \in RequestTypes, input \in Inputs : StreamRequest(type, input)
    \/ Validate
    \/ \E token \in PipelineTokens : LLMToken(token)
    \/ LLMEnd
    \/ LLMRaise
    \/ \E d \in Durations : TTSReturn(d)
    \/ TTSRaise
    \/ LipsyncStart
    \/ \E outcome \in LipsyncOutcomes : Lipsync(outcome)
    \/ \E outcome \in SentimentOutcomes : Sentiment(outcome)
    \/ \E outcome \in MotionOutcomes : Motion(outcome)
    \/ StreamFrame
    \/ StreamDone
    \/ StreamError
    \/ StreamDisconnect

SpecStream == InitStream /\ [][NextStream]_vars

\* chat_endpoint has called process(user_input=request.message, ...)
InitChat ==
    /\ ChunkerAbsent
    /\ ManagerAbsent
    /\ HealthAbsent
    /\ InvocationsAbsent
    /\ wpc = "absent"
    /\ sent = <<>>
    /\ full_text = <<>>
    /\ total_duration = 0
    /\ ppc = "start"
    /\ user_input \in Inputs
    /\ conversation_history = None
    /\ messages = <<>>
    /\ timeline_ts = 0
    /\ cur = NoCur
    /\ frames = <<>>
    /\ calls = {}
    /\ error = NoError
    /\ temp_files = 0
    /\ rpc = "running"
    /\ full_text_chunks = <<>>
    /\ all_audio_bytes = <<>>
    /\ all_blendshapes = <<>>
    /\ all_motion = <<>>
    /\ response = NoResponse

NextChat ==
    \/ Validate
    \/ \E token \in PipelineTokens : LLMToken(token)
    \/ LLMEnd
    \/ LLMRaise
    \/ \E d \in Durations : TTSReturn(d)
    \/ TTSRaise
    \/ LipsyncStart
    \/ \E outcome \in LipsyncOutcomes : Lipsync(outcome)
    \/ \E outcome \in SentimentOutcomes : Sentiment(outcome)
    \/ \E outcome \in MotionOutcomes : Motion(outcome)
    \/ ChatFrame
    \/ ChatRespond
    \/ ChatError

SpecChat == InitChat /\ [][NextChat]_vars

\* process(user_input, conversation_history) has been called with a history
InitHistory ==
    /\ ChunkerAbsent
    /\ ManagerAbsent
    /\ EndpointAbsent
    /\ HealthAbsent
    /\ InvocationsAbsent
    /\ ppc = "start"
    /\ user_input \in Inputs
    /\ conversation_history \in Histories
    /\ messages = <<>>
    /\ timeline_ts = 0
    /\ cur = NoCur
    /\ frames = <<>>
    /\ calls = {}
    /\ error = NoError
    /\ temp_files = 0

\* the stages behave in one way each where the history plays no part
NextHistory ==
    \/ Validate
    \/ \E token \in PipelineTokens : LLMToken(token)
    \/ LLMEnd
    \/ LLMRaise
    \/ \E d \in {1} : TTSReturn(d)
    \/ TTSRaise
    \/ LipsyncStart
    \/ \E outcome \in {"shapes"} : Lipsync(outcome)
    \/ \E outcome \in {"angry"} : Sentiment(outcome)
    \/ \E outcome \in {"keyframes"} : Motion(outcome)
    \/ NextFrame

SpecHistory == InitHistory /\ [][NextHistory]_vars

\* healthcheck() has been called on a pipeline whose components behave in any way
InitHealth ==
    /\ ChunkerAbsent
    /\ PipelineAbsent
    /\ ManagerAbsent
    /\ EndpointAbsent
    /\ InvocationsAbsent
    /\ hpc = "checking"
    /\ probes \in [Components -> ProbeBehaviours]
    /\ health = {}

NextHealth ==
    \/ HealthProbe
    \/ HealthReturn

SpecHealth == InitHealth /\ [][NextHealth]_vars

\* a StreamingManager used by several tasks
InitManager ==
    /\ ChunkerAbsent
    /\ PipelineAbsent
    /\ EndpointAbsent
    /\ HealthAbsent
    /\ InvocationsAbsent
    /\ observers = <<>>
    /\ bpc = "idle"
    /\ snapshot = <<>>
    /\ bidx = 1
    /\ bframe = 0
    /\ error_payload = NoPayload
    /\ delivered = <<>>
    /\ lastCall = ManagerCall("none", "", FALSE)
    /\ ops_left = MaxManagerOps
    /\ tasks = [t \in Callers |-> NoBroadcast]
    /\ received = <<>>

NextManager ==
    \/ \E o \in Observers : Subscribe(o)
    \/ \E o \in Observers : Unsubscribe(o)
    \/ BroadcastStart
    \/ \E raised \in BOOLEAN : Deliver(raised)
    \/ \E error_message \in ErrorMessages : BroadcastErrorStart(error_message)
    \/ \E raised \in BOOLEAN : DeliverError(raised)

SpecManager == InitManager /\ [][NextManager]_vars

\* broadcast called by concurrent tasks on a manager with two or three observers
InitBroadcasts ==
    /\ ChunkerAbsent
    /\ PipelineAbsent
    /\ EndpointAbsent
    /\ HealthAbsent
    /\ InvocationsAbsent
    /\ observers \in {<<"o1", "o2">>, <<"o1", "o2", "o3">>}
    /\ bpc = "idle"
    /\ snapshot = <<>>
    /\ bidx = 1
    /\ bframe = 0
    /\ error_payload = NoPayload
    /\ delivered = <<>>
    /\ lastCall = ManagerCall("none", "", FALSE)
    /\ ops_left = 0
    /\ tasks = [t \in Callers |-> NoBroadcast]
    /\ received = <<>>

NextBroadcasts ==
    \/ \E t \in Callers : TaskBroadcast(t)
    \/ \E t \in Callers, outcome \in CallOutcomes : TaskCall(t, outcome)
    \/ \E t \in Callers, raised \in BOOLEAN : TaskResume(t, raised)

SpecBroadcasts == InitBroadcasts /\ [][NextBroadcasts]_vars


-----------------------------------------------------------------------------
(* Properties of the chunker, checked under SpecChunker                    *)

\* the texts of the chunks yielded so far
ChunkTexts == [i \in 1..Len(chunks) |-> chunks[i].text]

\* C5: every chunk yielded before the final flush has at least min_words words
MinimumLengthInvariant ==
    \A i \in 1..Len(chunks) :
        ~chunks[i].final => WordCount(chunks[i].text) >= min_words

\* C5 witness: a chunk was cut out of the stream and the final flush then yielded a
\* chunk shorter than min_words
MinimumLengthWitness ==
    /\ cpc = "done"
    /\ \E i \in 1..Len(chunks) : ~chunks[i].final
    /\ \E i \in 1..Len(chunks) : chunks[i].final /\ WordCount(chunks[i].text) < min_words

\* C6: once the stream is consumed, the chunks joined with single spaces have the
\* words of the concatenated tokens
SegmentationReassembly ==
    cpc = "done" => Split(Join(ChunkTexts)) = Split(fed)

\* a cut at offset p of the token text is inside a word when the characters on both
\* sides of it are not whitespace
MidWord(text, p) ==
    /\ p >= 1
    /\ p < Len(text)
    /\ ~IsSpace(text[p])
    /\ ~IsSpace(text[p + 1])

\* C7: no chunk was cut inside a word of the token text
WordBoundaryInvariant ==
    \A i \in 1..Len(chunks) : ~MidWord(fed, chunks[i].cut)

\* C8: at the end of the token stream the trimmed buffer is yielded as one final chunk
\* exactly when it is not empty, whatever min_words is, and nothing is yielded after it
FinalFlushStep ==
    /\ (cpc = "feeding" /\ cpc' # "feeding") =>
          IF Strip(buffer) # <<>>
          THEN /\ Len(chunks') = Len(chunks) + 1
               /\ chunks'[Len(chunks')].text = Strip(buffer)
               /\ SubSeq(chunks', 1, Len(chunks)) = chunks
          ELSE chunks' = chunks
    /\ cpc # "feeding" => chunks' = chunks

\* C8, example: the tokens "a", " b", " b" with min_words = 4 give the single chunk "a b b"
FinalFlushExample ==
    (/\ min_words = 4
     /\ fed = <<"a", " ", "b", " ", "b">>
     /\ cpc # "feeding") => ChunkTexts = << <<"a", " ", "b", " ", "b">> >>

\* C8: the final flush yields the trimmed remainder iff it is not empty, regardless of
\* min_words (every step, and the example stream)
FinalFlush == []FinalFlushExample /\ [][FinalFlushStep]_vars

\* C8 witness: the example stream has been flushed
FinalFlushWitness ==
    /\ min_words = 4
    /\ fed = <<"a", " ", "b", " ", "b">>
    /\ cpc = "done"
    /\ Len(chunks) = 1


-----------------------------------------------------------------------------
(* Properties of process, checked under Spec                               *)

\* d1 + ... + dn for the audio durations of the first n frames
RECURSIVE SumDurations(_, _)
SumDurations(fs, n) ==
    IF n = 0 THEN 0 ELSE SumDurations(fs, n - 1) + fs[n].audio_chunk.duration

\* C1: the i-th frame is stamped with the sum of the durations of the frames before
\* it, and the timeline moves past a frame only after the frame was emitted
TimestampPrefixSums ==
    /\ \A i \in 1..Len(frames) : frames[i].timestamp = SumDurations(frames, i - 1)
    /\ ppc \in {"yielded", "abandoned"} => timeline_ts = frames[Len(frames)].timestamp
    /\ ppc \notin {"yielded", "abandoned"} => timeline_ts = SumDurations(frames, Len(frames))

\* C1 witness: three frames of durations 1, 2, 1 stamped 0, 1, 3
TimestampPrefixSumsWitness ==
    /\ Len(frames) = 3
    /\ frames[1].audio_chunk.duration = 1
    /\ frames[2].audio_chunk.duration = 2
    /\ frames[3].audio_chunk.duration = 1
    /\ frames[3].timestamp = 3
    /\ ppc = "completed"

\* C2: when synthesis raises on the k-th chunk the caller has exactly the frames of
\* the k - 1 chunks before it and gets a RuntimeError wrapping the failure
EssentialStageAbort ==
    error.cause = "tts" =>
        /\ ppc = "aborted"
        /\ error.type = "RuntimeError"
        /\ error.message = "Pipeline error"
        /\ Len(frames) = Len(chunks) - 1
        /\ \A i \in 1..Len(frames) : frames[i].text_chunk = chunks[i].text

\* C2 witness: synthesis raised on the second chunk, after one frame
EssentialStageAbortWitness ==
    /\ error.cause = "tts"
    /\ Len(chunks) = 2
    /\ Len(frames) = 1

\* C3: a lipsync failure (or a failure to save the audio) never ends the stream; the
\* chunk's frame is emitted with blendshapes = None, one frame per chunk
BestEffortLipsync ==
    /\ error.cause \notin {"lipsync", "save_audio"}
    /\ (ppc \in {"sentiment", "motion"} /\ cur.lipsync \in {"raises", "save_failed"}) =>
           error = NoError
    /\ (ppc = "yielded" /\ cur.lipsync \in {"raises", "save_failed"}) =>
           /\ frames[Len(frames)].blendshapes = None
           /\ frames[Len(frames)].text_chunk = cur.text_chunk
           /\ error = NoError
    /\ ppc \in {"yielded", "completed"} => Len(frames) = Len(chunks)

\* C3 witness: the third chunk's lipsync raised like the ones before it; three frames
\* without blendshapes have been emitted
BestEffortLipsyncWitness ==
    /\ ppc = "yielded"
    /\ cur.lipsync = "raises"
    /\ Len(frames) = 3
    /\ \A i \in 1..3 : frames[i].blendshapes = None

\* C4: an empty, blank or over-long input fails with ValueError before any capability
\* is called or any frame emitted; 2000 non-blank characters pass
InputValidation ==
    /\ (ppc # "start" /\ (user_input.len = 0 \/ user_input.blank \/ user_input.len > 2000)) =>
           /\ ppc = "failed"
           /\ error.type = "ValueError"
           /\ calls = {}
           /\ frames = <<>>
    /\ (ppc # "start" /\ user_input.len = 2000 /\ ~user_input.blank) =>
           /\ ppc # "failed"
           /\ error.type # "ValueError"
           /\ "llm" \in calls

\* C4 witness: 2001 non-blank characters were refused
InputValidationWitness ==
    /\ ppc = "failed"
    /\ user_input.len = 2001
    /\ ~user_input.blank

-----------------------------------------------------------------------------
(* Properties of the StreamingManager, checked under SpecManager           *)

\* the observers the latest broadcast has called, in order
Called == [i \in 1..Len(delivered) |-> delivered[i].observer]

\* the list without the element x
Without(seq, x) == SelectSeq(seq, LAMBDA y : y # x)

\* C9: a step of the broadcast loop removes the observer when it raised and leaves
\* the subscriber list alone when it did not
DeliveryStep ==
    Len(delivered') = Len(delivered) + 1 =>
        LET d == delivered'[Len(delivered')] IN
        IF d.raised
        THEN d.observer \notin Range(observers') /\ observers' = Without(observers, d.observer)
        ELSE observers' = observers

\* C9: a broadcast calls every observer of its snapshot, whichever of them raise
EveryObserverCalled ==
    /\ Called = SubSeq(snapshot, 1, Len(delivered))
    /\ bpc = "idle" => Called = snapshot
    /\ \A i \in 1..Len(delivered) : delivered[i].frame = bframe

\* three subscriptions and one broadcast in which only the second observer raised
SecondOfThreeRaised ==
    /\ ops_left = MaxManagerOps - 4
    /\ bpc = "idle"
    /\ Len(snapshot) = 3
    /\ [i \in 1..Len(delivered) |-> delivered[i].raised] = <<FALSE, TRUE, FALSE>>

\* C9, example: the first and third observers got the frame and two observers remain
FaultIsolationExample ==
    SecondOfThreeRaised =>
        /\ Called = snapshot
        /\ observers = <<snapshot[1], snapshot[3]>>
        /\ Len(observers) = 2

\* C9: a raising observer is unsubscribed, the others are still called and stay
\* subscribed (every delivery, every broadcast, and the three-observer example)
BroadcastFaultIsolation ==
    [](EveryObserverCalled /\ FaultIsolationExample) /\ [][DeliveryStep]_vars

\* C9 witness: the example broadcast has returned
BroadcastFaultIsolationWitness ==
    /\ SecondOfThreeRaised
    /\ snapshot = <<"o1", "o2", "o3">>

\* C10: subscribing a present observer and unsubscribing an absent one change nothing
IdempotentStep ==
    /\ (lastCall'.op = "subscribe" /\ lastCall'.observer \in Range(observers)) =>
           observers' = observers
    /\ (lastCall'.op = "unsubscribe" /\ lastCall'.observer \notin Range(observers)) =>
           observers' = observers

\* C10: after subscribe(o), however often repeated, o is subscribed once; after
\* unsubscribe(o) it is not subscribed
SubscribedOnce ==
    /\ lastCall.op = "subscribe" =>
           Cardinality({i \in 1..Len(observers) : observers[i] = lastCall.observer}) = 1
    /\ lastCall.op = "unsubscribe" => lastCall.observer \notin Range(observers)

\* C10: subscribe and unsubscribe are idempotent (every call, and its outcome)
SubscribeUnsubscribeIdempotent == []SubscribedOnce /\ [][IdempotentStep]_vars

\* C10 witness: subscribe was called for an observer already in a list of two
SubscribeUnsubscribeIdempotentWitness ==
    /\ lastCall.op = "subscribe"
    /\ lastCall.present
    /\ Len(observers) = 2

\* C11: a broadcast takes the subscriber list when it starts; subscribe and unsubscribe
\* calls made while it delivers leave its recipients, its position and its log alone
SnapshotStep ==
    /\ bframe' # bframe => (snapshot' = observers /\ delivered' = <<>>)
    /\ bframe' = bframe => snapshot' = snapshot
    /\ (bpc = "delivering" /\ lastCall'.op \in {"subscribe", "unsubscribe"}) =>
           /\ delivered' = delivered
           /\ bidx' = bidx
           /\ bpc' = "delivering"

\* C11: the observers called are the ones subscribed when the broadcast started, in
\* order, none twice; the subscriber list never holds an observer twice
SnapshotRecipients ==
    /\ Called = SubSeq(snapshot, 1, Len(delivered))
    /\ Cardinality(Range(Called)) = Len(delivered)
    /\ Cardinality(Range(observers)) = Len(observers)
    /\ bpc = "idle" => Len(delivered) = Len(snapshot)
    /\ bpc = "delivering" => (bidx = Len(delivered) + 1 /\ bidx <= Len(snapshot))

\* C11: a broadcast calls exactly the observers subscribed at its start, once each,
\* whatever is subscribed or unsubscribed during delivery; such changes show in the
\* snapshot of the next broadcast
ConcurrentSubscription == []SnapshotRecipients /\ [][SnapshotStep]_vars

\* C11 witness: a broadcast to two observers has returned, nobody raised; during the
\* delivery a third observer was subscribed and the second one unsubscribed, and the
\* second one still got the frame
ConcurrentSubscriptionWitness ==
    /\ bpc = "idle"
    /\ lastCall.op = "deliver"
    /\ snapshot = <<"o1", "o2">>
    /\ Called = snapshot
    /\ \A i \in 1..Len(delivered) : ~delivered[i].raised
    /\ observers = <<"o1", "o3">>

-----------------------------------------------------------------------------
(* Properties of stream_endpoint, checked under SpecStream                 *)

\* the messages of the latest request are frames, except possibly the last one
FramesThenTerminal ==
    \A i \in 1..(Len(sent) - 1) : sent[i].type = "frame"

\* the i-th message is the payload of the i-th frame of process
SentFrames(n) ==
    \A i \in 1..n : sent[i] = FramePayload(frames[i])

\* C12: a chat request on a connected session gets its frames, then exactly one
\* terminal message: "done" when process completed, "error" when it raised; the
\* handler does not leave a request without one, and sends nothing after it
StreamTermination ==
    /\ FramesThenTerminal
    /\ wpc = "streaming" =>
           /\ \A i \in 1..Len(sent) : sent[i].type = "frame"
           /\ Len(sent) = IF ppc = "yielded" THEN Len(frames) - 1 ELSE Len(frames)
           /\ SentFrames(Len(sent))
    /\ (wpc \in {"receiving", "closed"} /\ ppc # "idle") =>
           /\ Len(sent) = Len(frames) + 1
           /\ SentFrames(Len(frames))
           /\ ppc \in {"completed", "failed", "aborted"}
           /\ ppc = "completed" <=> sent[Len(sent)].type = "done"
           /\ ppc \in {"failed", "aborted"} <=> sent[Len(sent)].type = "error"
    /\ wpc = "closed" => ppc \in {"failed", "aborted"}
    /\ (wpc = "receiving" /\ ppc = "idle" /\ sent # <<>>) =>
           (Len(sent) = 1 /\ sent[1].type = "error")

\* C12 witness: synthesis raised on the second chunk; the client got one frame and
\* then the "error" message
StreamTerminationWitness ==
    /\ wpc = "closed"
    /\ error.cause = "tts"
    /\ Len(frames) = 1
    /\ Len(sent) = 2
    /\ sent[2] = ErrorMessage("Pipeline error")

-----------------------------------------------------------------------------
(* Further properties of process, checked under Spec                       *)

\* C13: no frame is stamped before 0 and no frame is stamped earlier than the frame
\* before it
MonotonicTimestamps ==
    /\ timeline_ts >= 0
    /\ \A i \in 1..Len(frames) : frames[i].timestamp >= 0
    /\ \A i \in 1..(Len(frames) - 1) : frames[i].timestamp <= frames[i + 1].timestamp

\* C13 witness: three frames stamped 0, 0 and 2 (the first chunk's audio was empty)
MonotonicTimestampsWitness ==
    /\ Len(frames) = 3
    /\ frames[1].timestamp = 0
    /\ frames[2].timestamp = 0
    /\ frames[3].timestamp = 2

\* C14: the step in which the language-model stream raises emits nothing and leaves
\* the chunker's buffer where it was
LLMFailureStep ==
    (error.cause # "llm" /\ error'.cause = "llm") =>
        /\ frames' = frames
        /\ chunks' = chunks
        /\ buffer' = buffer

\* C14: after the language-model stream raised, process has raised a RuntimeError
\* wrapping it; the frames are those of the chunks cut before the failure, and the
\* text left in the buffer was not flushed into a chunk
LLMFailureOutcome ==
    error.cause = "llm" =>
        /\ ppc = "aborted"
        /\ error.type = "RuntimeError"
        /\ error.message = "LLM stream error"
        /\ cpc = "feeding"
        /\ Len(frames) = Len(chunks)
        /\ \A i \in 1..Len(frames) : frames[i].text_chunk = chunks[i].text /\ ~chunks[i].final

\* C14: a failure of the language-model stream, before the first token or after any
\* number of them, ends process with a RuntimeError wrapping it; emitted frames
\* stay emitted and the buffered text never becomes a frame
LLMStreamFailure == []LLMFailureOutcome /\ [][LLMFailureStep]_vars

\* C14 witness: the stream raised after one frame, with text waiting in the buffer
LLMStreamFailureWitness ==
    /\ error.cause = "llm"
    /\ Len(frames) = 1
    /\ Strip(buffer) # <<>>

\* the analyzer failed to give a recognised label: it raised, or the string it
\* returned is not one of the recognised labels once stripped and lower-cased
NoRecognisedLabel(outcome) ==
    outcome = "raises" \/ StripLower(outcome) \notin RecognisedEmotions

\* C15: when the sentiment analyzer raises or returns a value that is not a recognised
\* label, the emotion handed to the motion stage is "neutral" and the chunk goes on
SentimentFallback ==
    (ppc = "motion" /\ NoRecognisedLabel(cur.sentiment)) =>
        /\ cur.emotion = "neutral"
        /\ error = NoError

\* C16: the frame of a chunk whose motion stage raised or returned no keyframes has
\* been emitted with motion = None, and no error has been raised
MotionFailureFrame ==
    /\ error.cause # "motion"
    /\ (ppc = "yielded" /\ cur.motion \in {"raises", "no_keyframes"}) =>
           /\ frames[Len(frames)].motion = None
           /\ frames[Len(frames)].text_chunk = cur.text_chunk
           /\ frames[Len(frames)].timestamp = timeline_ts
           /\ Len(frames) = Len(chunks)
           /\ error = NoError

\* C16: when process is resumed after such a frame, the timeline moves on by the
\* chunk's audio duration and the language-model stream is asked for more
MotionFailureStep ==
    (ppc = "yielded" /\ cur.motion \in {"raises", "no_keyframes"} /\ ppc' = "llm") =>
        /\ timeline_ts' = timeline_ts + frames[Len(frames)].audio_chunk.duration
        /\ frames' = frames
        /\ error' = NoError

\* C16: a motion failure costs the frame its motion and nothing else
BestEffortMotion == []MotionFailureFrame /\ [][MotionFailureStep]_vars

\* C16 witness: the motion stage failed for the first chunk, whose audio lasted 2; the
\* second chunk's frame is stamped 2 and its motion stage raised as well
BestEffortMotionWitness ==
    /\ ppc = "yielded"
    /\ Len(frames) = 2
    /\ frames[1].motion = None
    /\ frames[1].audio_chunk.duration = 2
    /\ frames[2].timestamp = 2
    /\ cur.motion = "raises"

AbandonStep ==
    (ppc' = "abandoned") =>
        /\ ppc \in {"yielded", "abandoned"}
        /\ UNCHANGED <<timeline_ts, calls, frames, temp_files, error>>
        /\ UNCHANGED <<cpc, stream_left, fed, buffer, chunks>>

\* C18: once abandoned the invocation stays abandoned
AbandonedForGood == ppc = "abandoned" => ppc' = "abandoned"

\* C18: an abandoned invocation stands at its last frame: the timeline was not moved
\* past it, every chunk cut has its frame, nothing was raised
AbandonedAtFrame ==
    ppc = "abandoned" =>
        /\ timeline_ts = frames[Len(frames)].timestamp
        /\ Len(frames) = Len(chunks)
        /\ cur = NoCur
        /\ error = NoError

\* C18: after the consumer abandons the iteration nothing more is requested, called or
\* advanced
AbandonStopsWork == []AbandonedAtFrame /\ [][AbandonStep /\ AbandonedForGood]_vars

\* C18 witness: the consumer left after the first frame, whose audio lasted 2, while
\* the language model had tokens left
AbandonStopsWorkWitness ==
    /\ ppc = "abandoned"
    /\ Len(frames) = 1
    /\ frames[1].audio_chunk.duration = 2
    /\ timeline_ts = 0
    /\ cpc = "feeding"
    /\ stream_left > 0

\* the capability calls of one chunk, in the order of the loop body of process
StageOrder == <<"tts", "lipsync", "sentiment", "motion">>

\* the calls made for a chunk whose lipsync stage did or did not reach the generator
StagesDone(n, lipsync) ==
    IF lipsync = "save_failed"
    THEN SelectSeq(SubSeq(StageOrder, 1, n), LAMBDA st : st # "lipsync")
    ELSE SubSeq(StageOrder, 1, n)

\* C19: the i-th frame carries the i-th chunk; at most one chunk is in work, and the
\* calls made for it so far are the first stages of the loop body, in order, all four
\* of them once its frame is emitted
OneChunkAtATime ==
    /\ Len(frames) <= Len(chunks)
    /\ Len(chunks) <= Len(frames) + 1
    /\ \A i \in 1..Len(frames) : frames[i].text_chunk = chunks[i].text
    /\ ppc = "tts" => cur.stages = <<>>
    /\ ppc \in {"lipsync", "lipsync_file"} => cur.stages = StagesDone(1, "")
    /\ ppc = "sentiment" => cur.stages = StagesDone(2, cur.lipsync)
    /\ ppc = "motion" => cur.stages = StagesDone(3, cur.lipsync)
    /\ ppc = "yielded" => cur.stages = StagesDone(4, cur.lipsync)
    /\ ppc \in {"tts", "lipsync", "lipsync_file", "sentiment", "motion"} =>
           /\ Len(chunks) = Len(frames) + 1
           /\ cur.text_chunk = chunks[Len(chunks)].text
    /\ ppc \in {"llm", "yielded", "completed"} => Len(chunks) = Len(frames)

\* C19: a token is asked of the language model only when every chunk cut so far has
\* its frame and the consumer has asked for the next one; a capability is called only
\* for the one chunk in work; a frame is emitted only after the chunk's motion call
StrictOrderStep ==
    /\ (cpc = "feeding" /\ (stream_left' # stream_left \/ cpc' # cpc)) =>
           /\ ppc = "llm"
           /\ Len(frames) = Len(chunks)
           /\ cur = NoCur
    /\ (Len(cur'.stages) > Len(cur.stages)) =>
           /\ cur'.stages = Append(cur.stages, cur'.stages[Len(cur'.stages)])
           /\ cur'.text_chunk = cur.text_chunk
           /\ cur.text_chunk = chunks[Len(frames) + 1].text
           /\ chunks' = chunks
    /\ frames' # frames =>
           /\ frames' = Append(frames, frames'[Len(frames')])
           /\ ppc = "motion"
           /\ cur'.stages = StagesDone(4, cur.lipsync)

\* C19: chunks go through synthesis, lipsync, sentiment and motion one at a time and in
\* that order, and their frames come out in the order of the chunks
StrictOrdering == []OneChunkAtATime /\ [][StrictOrderStep]_vars

\* C19 witness: the third chunk's frame has just been emitted after its four calls;
\* the three frames carry three chunks such as "a b c d.", "e f g h!" and "e"
StrictOrderingWitness ==
    /\ ppc = "yielded"
    /\ Len(frames) = 3
    /\ cur.stages = StageOrder
    /\ chunks[1].text # chunks[2].text
    /\ chunks[2].text # chunks[3].text
    /\ \A i \in 1..3 : frames[i].text_chunk = chunks[i].text

-----------------------------------------------------------------------------
(* Properties of healthcheck, checked under SpecHealth                     *)

\* C20: every entry is what the component's own probe makes it: True without a probe,
\* False when the probe raises, else the truth of what the probe returns
OwnProbeOnly ==
    \A p \in health :
        /\ p[1] \in Components
        /\ probes[p[1]] = "absent" => p[2] = TRUE
        /\ probes[p[1]] \in {"raises", "awaits_raises"} => p[2] = FALSE
        /\ probes[p[1]] \in {"returns_true", "awaits_true"} => p[2] = TRUE
        /\ probes[p[1]] = "returns_false" => p[2] = FALSE

\* C20: healthcheck returns, whatever the probes do, a mapping with exactly the keys
\* llm, tts, lipsync and motion, each value decided by that component's probe alone
HealthcheckReport ==
    /\ hpc \in {"checking", "returned"}
    /\ OwnProbeOnly
    /\ Cardinality({p[1] : p \in health}) = Cardinality(health)
    /\ hpc = "returned" => {p[1] : p \in health} = {"llm", "tts", "lipsync", "motion"}

\* C20 witness: the probe of llm raised, tts has none, lipsync's returned True and
\* motion's raised when awaited; the report is False, True, True, False
HealthcheckReportWitness ==
    /\ hpc = "returned"
    /\ probes = [llm |-> "raises", tts |-> "absent", lipsync |-> "returns_true",
                 motion |-> "awaits_raises"]
    /\ health = {<<"llm", FALSE>>, <<"tts", TRUE>>, <<"lipsync", TRUE>>, <<"motion", FALSE>>}

-----------------------------------------------------------------------------
(* Properties of broadcast_error and of the return of a broadcast, checked *)
(* under SpecManager                                                       *)

\* C21: broadcast and broadcast_error never raise to their caller: whatever the
\* observers raise, and however many of them raise in one call, the call is either
\* still in its loop or has returned after the last observer of its snapshot
BroadcastNeverRaises ==
    /\ bpc \in {"idle", "delivering", "delivering_error"}
    /\ bpc = "idle" => Len(delivered) = Len(snapshot)
    /\ bpc # "idle" => Len(delivered) < Len(snapshot)

\* C21 witness: an error broadcast to three observers returned although all three raised
AllObserversRaised ==
    /\ bpc = "idle"
    /\ error_payload # NoPayload
    /\ Len(snapshot) = 3
    /\ Len(delivered) = 3
    /\ \A i \in 1..3 : delivered[i].raised
    /\ observers = <<>>

\* C23: a step of the loop of broadcast_error calls the next observer of the snapshot
\* with the payload, removes it when it raised and leaves the list alone when not
ErrorDeliveryStep ==
    (bpc = "delivering_error" /\ Len(delivered') = Len(delivered) + 1) =>
        LET d == delivered'[Len(delivered')] IN
        /\ d.observer = snapshot[bidx]
        /\ d.payload = error_payload
        /\ bpc' \in {"idle", "delivering_error"}
        /\ IF d.raised
           THEN d.observer \notin Range(observers') /\ observers' = Without(observers, d.observer)
           ELSE observers' = observers

\* C23: broadcast_error without observers does nothing; with observers it builds
\* the payload {type: "error", message: error_message} and takes the snapshot
ErrorBroadcastStartStep ==
    lastCall'.op = "broadcast_error" =>
        /\ observers' = observers
        /\ snapshot' = observers
        /\ delivered' = <<>>
        /\ IF observers = <<>>
           THEN bpc' = "idle" /\ error_payload' = NoPayload
           ELSE /\ bpc' = "delivering_error"
                /\ \E m \in ErrorMessages : error_payload' = [type |-> "error", message |-> m]

\* C23: every observer of the snapshot is called with the error payload, in order
ErrorReachesEveryObserver ==
    error_payload # NoPayload =>
        /\ Called = SubSeq(snapshot, 1, Len(delivered))
        /\ bpc = "idle" => Called = snapshot
        /\ \A i \in 1..Len(delivered) : delivered[i].payload = error_payload
        /\ DOMAIN error_payload = {"type", "message"}
        /\ error_payload.type = "error"
        /\ error_payload.message \in ErrorMessages

\* C23: broadcast_error has the fan-out and the fault isolation of broadcast
BroadcastErrorFanOut ==
    /\ []ErrorReachesEveryObserver
    /\ [][ErrorDeliveryStep /\ ErrorBroadcastStartStep]_vars

\* C23 witness: an error broadcast to three observers of which only the second raised
\* went on to the third, and the first and third are still subscribed
ErrorFaultIsolationWitness ==
    /\ bpc = "idle"
    /\ error_payload = ErrorPayload("TTS failed")
    /\ snapshot = <<"o1", "o2", "o3">>
    /\ [i \in 1..Len(delivered) |-> delivered[i].raised] = <<FALSE, TRUE, FALSE>>
    /\ observers = <<"o1", "o3">>

-----------------------------------------------------------------------------
(* Properties of concurrent broadcast calls, checked under SpecBroadcasts  *)

\* the calls that one observer has begun to receive, in order
BegunAt(o) == SelectSeq(received, LAMBDA e : e.kind = "begin" /\ e.observer = o)

\* C22: a broadcast ends its delivery to every observer of its snapshot before any
\* delivery of a later broadcast begins, so each observer receives the frames in
\* the order in which their broadcasts were started
BroadcastsInOrder ==
    /\ \A i, j \in 1..Len(received) : i < j => received[i].frame <= received[j].frame
    /\ \A o \in Observers :
           \A i, j \in 1..Len(BegunAt(o)) : i < j => BegunAt(o)[i].frame <= BegunAt(o)[j].frame

-----------------------------------------------------------------------------
(* Properties of chat_endpoint, checked under SpecChat                     *)

\* the blendshapes (or motion) entries of the frames that carry one, in order
RECURSIVE TrackOf(_, _)
TrackOf(fs, field) ==
    IF fs = <<>> THEN <<>>
    ELSE LET f == fs[Len(fs)]
             rest == TrackOf(SubSeq(fs, 1, Len(fs) - 1), field)
             v == IF field = "blendshapes" THEN f.blendshapes ELSE f.motion
         IN IF v = None THEN rest ELSE Append(rest, [timestamp |-> f.timestamp, value |-> v.value])

-----------------------------------------------------------------------------
(* Properties of the "done" message, checked under SpecStream              *)

\* the text chunks of the frames, one after the other
RECURSIVE ConcatTexts(_)
ConcatTexts(fs) ==
    IF fs = <<>> THEN <<>> ELSE fs[1].text_chunk \o ConcatTexts(Tail(fs))

\* C25: the "done" message carries the concatenation of the text chunks of all the
\* frames sent and, as total_duration, the sum of their audio durations
DoneCarriesTotals ==
    \A i \in 1..Len(sent) :
        sent[i].type = "done" =>
            /\ sent[i].full_text = ConcatTexts(frames)
            /\ sent[i].total_duration = SumDurations(frames, Len(frames))

-----------------------------------------------------------------------------
(* Properties of the conversation history, checked under SpecHistory       *)

\* the caller's history as a list: None stands for no messages
HistoryList == IF conversation_history = None THEN <<>> ELSE conversation_history.value

\* C26: no step of process changes the caller's conversation_history
HistoryUntouched == conversation_history' = conversation_history

\* C26: once the input is accepted, the list the language model is given is the
\* caller's history followed by the user message
MessagesAreHistoryThenInput ==
    /\ ppc \in {"start", "failed"} => (messages = <<>> /\ "llm" \notin calls)
    /\ ppc \notin {"start", "failed"} =>
           /\ "llm" \in calls
           /\ Len(messages) = Len(HistoryList) + 1
           /\ SubSeq(messages, 1, Len(HistoryList)) = HistoryList
           /\ messages[Len(messages)] = [role |-> "user", content |-> user_input]

\* C26: process never mutates the caller's conversation_history; the user message
\* is appended to a copy, and the copy is what the language generation receives
HistoryNotMutated ==
    /\ [][HistoryUntouched]_vars
    /\ []MessagesAreHistoryThenInput

\* C26 witness: a run with a two-message history completed with frames; the model
\* got three messages and the caller's list still has two
HistoryNotMutatedWitness ==
    /\ ppc = "completed"
    /\ frames # <<>>
    /\ conversation_history # None
    /\ Len(HistoryList) = 2
    /\ Len(messages) = 3

-----------------------------------------------------------------------------
(* Properties of the extraction after a token, checked under SpecChunker   *)

\* an extraction from the buffer as it stands would yield a chunk
ChunkReady == FeedToken(mode, buffer, max_words, min_words, <<>>).yield

\* C27: the chunks that are ready after a token are all emitted before the next
\* token is requested: no chunk is ready in the buffer when process_stream goes
\* back to its token source
DrainedBeforeNextToken == cpc = "feeding" => ~ChunkReady

-----------------------------------------------------------------------------
(* Properties of the payload of a frame, checked under Spec                *)

\* C28: the frame just yielded is built from the chunk in flight: its text, the
\* audio synthesized for it, the lipsync mapping unless empty, the motion mapping
\* unless empty
YieldedFrameOfChunk ==
    ppc = "yielded" =>
        LET f == frames[Len(frames)] IN
        /\ f.text_chunk = cur.text_chunk
        /\ f.audio_chunk = cur.audio_bytes
        /\ f.blendshapes = None <=> cur.blendshapes_dict = {}
        /\ f.blendshapes # None => f.blendshapes.value = cur.blendshapes_dict
        /\ f.motion = None <=> ProcessMotion(cur.motion) = {}
        /\ f.motion # None => f.motion.value = ProcessMotion(cur.motion)

\* C28: every frame carries a non-empty text_chunk, that of its chunk, and the audio
\* synthesized for that chunk; blendshapes and motion are None exactly when the
\* mapping of their stage is empty, so no frame lacks all its payload fields
FrameCarriesItsChunk ==
    /\ YieldedFrameOfChunk
    /\ \A i \in 1..Len(frames) :
           /\ frames[i].text_chunk # <<>>
           /\ frames[i].text_chunk = chunks[i].text
           /\ frames[i].audio_chunk.text = frames[i].text_chunk
           /\ frames[i].blendshapes # Some({})
           /\ frames[i].motion # Some({})

\* C28 witness: a frame whose lipsync and motion mappings were both empty was yielded
\* with its text and audio, blendshapes None and motion None
FrameWithoutAnimation ==
    /\ ppc = "yielded"
    /\ cur.blendshapes_dict = {}
    /\ cur.motion = "no_keyframes"
    /\ frames[Len(frames)].blendshapes = None
    /\ frames[Len(frames)].motion = None
    /\ frames[Len(frames)].text_chunk # <<>>

-----------------------------------------------------------------------------
(* Properties of one extraction, checked on the feeds of SpecChunker       *)

\* the token a feed step appended, and the buffer the extraction then saw
FedToken == SubSeq(fed', Len(fed) + 1, Len(fed'))

FedBuffer == buffer \o FedToken

\* the feed step yielded a chunk
FeedYielded == Len(chunks') = Len(chunks) + 1

\* the offset in FedBuffer at which the feed step cut its chunk
FeedCut == chunks'[Len(chunks')].cut - (Len(fed) - Len(buffer))

\* buf holds a sentence terminator up to which there are at least minw words
SentenceReady(buf, minw) ==
    \E i \in 1..Len(buf) :
        buf[i] \in SENTENCE_TERMINATORS /\ WordCount(Strip(Take(buf, i))) >= minw

\* C29: in hybrid and punctuation modes a feed after which the buffer holds a
\* sentence terminator with at least min_words words up to it emits a chunk cut
\* right after a sentence terminator and keeps the text after the cut, less its
\* leading whitespace
SentenceCutOnFeed ==
    [][(mode \in {"hybrid", "punctuation"} /\ fed' # fed /\ SentenceReady(FedBuffer, min_words)) =>
           /\ FeedYielded
           /\ FeedCut \in 1..Len(FedBuffer)
           /\ FedBuffer[FeedCut] \in SENTENCE_TERMINATORS
           /\ chunks'[Len(chunks')].text = Strip(Take(FedBuffer, FeedCut))
           /\ buffer' = LStrip(Drop(FedBuffer, FeedCut))]_vars

\* buf holds neither a sentence terminator nor a clause separator
NoPunctuation(buf) ==
    \A i \in 1..Len(buf) : buf[i] \notin (SENTENCE_TERMINATORS \cup CLAUSE_SEPARATORS)

\* C30: in hybrid mode with min_words <= max_words, a buffer without sentence
\* terminator and clause separator that holds at least max_words words gives up a
\* chunk of exactly its first max_words words and keeps the rest
WordCutOnFeed ==
    [][(/\ mode = "hybrid"
        /\ fed' # fed
        /\ min_words <= max_words
        /\ NoPunctuation(FedBuffer)
        /\ WordCount(Strip(FedBuffer)) >= max_words) =>
           /\ FeedYielded
           /\ Split(chunks'[Len(chunks')].text) = Take(Split(Strip(FedBuffer)), max_words)
           /\ Split(Strip(buffer')) = Drop(Split(Strip(FedBuffer)), max_words)]_vars

-----------------------------------------------------------------------------
(* The three modes compared on the buffers of the feeds of SpecChunker     *)

\* steps 1 and 2 of _extract_hybrid alone: the sentence cut, then the clause cut
\* once the buffer holds max_words - 2 words
HybridSteps12(buf, maxw, minw) ==
    LET sentence == CutAfter(SENTENCE_TERMINATORS, buf, minw) IN
    IF sentence.some THEN sentence
    ELSE IF WordCount(Strip(buf)) >= maxw - 2
         THEN CutAfter(CLAUSE_SEPARATORS, buf, minw)
         ELSE NoChunk(buf)

\* C31: words mode does what step 3 of hybrid mode does: on every buffer the two
\* give the same chunk (or none) and leave the same remainder, and on a buffer
\* without punctuation words mode and hybrid mode agree
WordsModeIsHybridStep3 ==
    [][fed' # fed =>
           /\ ExtractByWords(FedBuffer, max_words, min_words)
                  = HybridWordCut(FedBuffer, max_words, min_words)
           /\ NoPunctuation(FedBuffer) =>
                  TryExtractChunk("words", FedBuffer, max_words, min_words)
                      = TryExtractChunk("hybrid", FedBuffer, max_words, min_words)]_vars

\* C32: punctuation mode does what steps 1 and 2 of hybrid mode do, the clause cut
\* being tried once the buffer holds max_words - 2 words, and never cuts by words
PunctuationModeIsHybridSteps12 ==
    [][fed' # fed =>
           /\ ExtractByPunctuation(FedBuffer, max_words, min_words)
                  = HybridSteps12(FedBuffer, max_words, min_words)
           /\ (mode = "punctuation" /\ FeedYielded) =>
                  FedBuffer[FeedCut] \in (SENTENCE_TERMINATORS \cup CLAUSE_SEPARATORS)]_vars

-----------------------------------------------------------------------------
(* Properties of the chunks of a stream, checked under SpecChunker         *)

\* C33: in hybrid and words modes every chunk yielded before the final flush has at
\* most max_words words
MaxWordsBound ==
    mode \in {"hybrid", "words"} =>
        \A i \in 1..Len(chunks) :
            ~chunks[i].final => WordCount(chunks[i].text) <= max_words

\* the words of a text joined by single spaces
Normalized(text) == Join(Split(text))

\* C34: every chunk yielded is a non-empty string without leading or trailing
\* whitespace whose words are separated by exactly one space
ChunksWhitespaceNormalized ==
    \A i \in 1..Len(chunks) :
        /\ chunks[i].text # <<>>
        /\ chunks[i].text = Normalized(chunks[i].text)

-----------------------------------------------------------------------------
(* The life of one invocation of process, checked under Spec               *)

\* the state of the coordinator at a position of process; an invocation its caller
\* cancelled or abandoned stopped in the middle of Streaming
Phase(p) ==
    IF p = "start" THEN "Validating"
    ELSE IF p = "failed" THEN "Failed"
    ELSE IF p = "aborted" THEN "Aborted"
    ELSE IF p = "completed" THEN "Completed"
    ELSE IF p \in {"cancelled", "abandoned"} THEN "Stopped"
    ELSE "Streaming"

\* C35: the moves between the states, and no move out of Completed, Failed, Aborted
PhaseStep ==
    /\ Phase(ppc) = "Validating" => Phase(ppc') \in {"Validating", "Streaming", "Failed"}
    /\ Phase(ppc) = "Streaming" =>
           Phase(ppc') \in {"Streaming", "Completed", "Aborted", "Stopped"}
    /\ Phase(ppc) \in {"Completed", "Failed", "Aborted"} =>
           /\ ppc' = ppc
           /\ frames' = frames
           /\ calls' = calls
           /\ error' = error

\* C35: an exception of process and its terminal state go together
PhaseOfError ==
    /\ Phase(ppc) = "Failed" <=> error.type = "ValueError"
    /\ Phase(ppc) = "Aborted" <=> error.type = "RuntimeError"
    /\ Phase(ppc) \in {"Validating", "Streaming", "Completed"} => error = NoError
    /\ Phase(ppc) = "Failed" => (frames = <<>> /\ calls = {})

\* C35: an invocation goes Validating, Streaming, Completed, or fails in Validating,
\* or aborts in Streaming; Failed and Aborted are final: no frame and no capability
\* call follows them
InvocationLifecycle ==
    /\ [][PhaseStep]_vars
    /\ []PhaseOfError

\* C35 witness: an invocation that streamed two frames and was then aborted by the
\* language model
AbortedWhileStreaming ==
    /\ ppc = "aborted"
    /\ error.cause = "llm"
    /\ Len(frames) = 2
    /\ calls = {"llm", "tts", "lipsync", "sentiment", "motion"}

\* C36: reset() empties the buffer and zeroes the chunk counter, and in the
\* stream that follows a reset, whatever the streams before it left behind, the
\* instance yields the chunks, holds the buffer and counts the chunks that a
\* chunker constructed afresh with the same configuration yields, holds and counts
ResetIsFresh ==
    /\ cpc = "reset" => buffer = <<>> /\ total_chunks_yielded = 0
    /\ cpc \in {"feeding", "flushed", "done", "stopped"} =>
         /\ ChunkTexts = fresh.chunks
         /\ buffer = fresh.buffer
         /\ total_chunks_yielded = fresh.total_chunks_yielded

\* a stream left text in the buffer, reset() threw it away, and the next stream
\* has yielded a chunk
ResetAfterAbandonedStream ==
    /\ fresh.discarded # <<>>
    /\ cpc \in {"feeding", "flushed", "done"}
    /\ chunks # <<>>

\* the observers subscribed after a step: the ones before it, with the observer of
\* a subscribe added and the observer of an unsubscribe or of a delivery that
\* raised taken away
LiveAfter(live, call, raised) ==
    CASE call.op = "subscribe" -> live \cup {call.observer}
      [] call.op = "unsubscribe" -> live \ {call.observer}
      [] call.op = "deliver" /\ raised -> live \ {call.observer}
      [] OTHER -> live

\* every operation and every delivery moves the set of subscribed observers as
\* LiveAfter says
LiveStep ==
    Range(observers') =
        LiveAfter(Range(observers), lastCall',
                  delivered' # <<>> /\ delivered'[Len(delivered')].raised)

\* C37: whatever is called and whoever raises, also while a delivery is awaited,
\* the subscriber list holds no observer twice and get_observer_count() is the
\* number of observers subscribed and since then neither unsubscribed nor removed
\* for raising in a delivery
ObserverCountInvariant ==
    /\ [](GetObserverCount(observers) = Cardinality(Range(observers)))
    /\ [][LiveStep]_vars

\* the first observer of a broadcast raised and was removed, and while the
\* broadcast was going on an observer was subscribed: two observers are counted
ObserverCountWitness ==
    /\ bpc \in {"delivering", "delivering_error"}
    /\ delivered # <<>>
    /\ delivered[1].raised
    /\ delivered[1].observer \notin Range(observers)
    /\ lastCall.op = "subscribe"
    /\ ~lastCall.present
    /\ GetObserverCount(observers) = 2

-----------------------------------------------------------------------------
(* Properties of concurrent invocations, checked under SpecConcurrent      *)

\* a chunker of the pipeline's configuration fed the tokens one after the other,
\* starting empty: the chunks it yields and the buffer it is left with
RECURSIVE FeedAll(_)
FeedAll(tokens) ==
    IF tokens = <<>> THEN [chunks |-> <<>>, buffer |-> <<>>]
    ELSE LET before == FeedAll(SubSeq(tokens, 1, Len(tokens) - 1))
             r == FeedToken("hybrid", before.buffer, PipelineChunkerConfig.max_words,
                            PipelineChunkerConfig.min_words, tokens[Len(tokens)])
         IN [chunks |-> IF r.yield THEN Append(before.chunks, r.chunk) ELSE before.chunks,
             buffer |-> r.buffer]

\* the chunks of a token stream run alone, f being what feeding its tokens gave,
\* with the final chunk once the stream has ended
AloneChunks(f, ended) ==
    IF ended /\ FlushYields(f.buffer) THEN Append(f.chunks, FinalChunk(f.buffer)) ELSE f.chunks

\* d1 + ... + dn
RECURSIVE SumOf(_, _)
SumOf(durations, n) == IF n = 0 THEN 0 ELSE SumOf(durations, n - 1) + durations[n]

\* the text and the timestamp of the k-th frame of an invocation run alone, from
\* its chunks and the durations given
AloneFrame(alone, durations, k) ==
    [timestamp |-> SumOf(durations, k - 1), text_chunk |-> alone[k]]

\* C38: two invocations on one pipeline interleaved at their suspension points: the
\* frames of each carry the chunk texts and the timestamps the invocation yields when
\* it runs alone on the tokens and the audio durations it was given; its timeline
\* starts at 0 and its buffer holds its own tokens only
InvocationsIndependent ==
    \A i \in Invocations :
        LET inv == invocations[i]
            f == FeedAll(inv.tokens)
            alone == AloneChunks(f, inv.ended)
        IN /\ Len(inv.frames) <= Len(alone)
           /\ \A k \in 1..Len(inv.frames) :
                 inv.frames[k] = AloneFrame(alone, inv.durations, k)
           /\ inv.pc = "completed" => Len(inv.frames) = Len(alone)
           /\ inv.pc # "completed" => inv.buffer = f.buffer
           /\ inv.frames # <<>> => inv.frames[1].timestamp = 0

\* both invocations are suspended with text in their buffers, one frame each, after
\* different tokens and different durations
InvocationsInterleaved ==
    /\ \A i \in Invocations : invocations[i].pc = "yielded" /\ invocations[i].buffer # <<>>
    /\ invocations[1].tokens # invocations[2].tokens
    /\ invocations[1].durations = <<1>>
    /\ invocations[2].durations = <<2>>
    /\ Len(invocations[2].tokens) = 2

-----------------------------------------------------------------------------
(* Termination of process, checked under SpecConsumed                      *)

\* the tokens the chunker of the invocation has been fed
TokensFed == IF cpc = "idle" THEN 0 ELSE MaxLLMTokens - stream_left

\* at most one chunk per token fed and one final chunk, and no more frames than chunks
FramesBound ==
    /\ Len(chunks) <= TokensFed + 1
    /\ Cardinality({i \in 1..Len(chunks) : chunks[i].final}) <= 1
    /\ \A i \in 1..Len(chunks) : ~chunks[i].final => i <= TokensFed
    /\ Len(frames) <= Len(chunks)
    /\ Len(frames) <= TokensFed + 1

\* C39: an invocation whose token stream ends, whose capability calls return or
\* raise and whose consumer takes every frame ends: completed or aborted when its
\* input was accepted, failed when it was refused; the chunker yields at most one
\* chunk per token and one final chunk, so there are never more frames than tokens
\* plus one
ProcessTerminates ==
    /\ []FramesBound
    /\ ValidateInput(user_input) = "none" => <>(ppc \in {"completed", "aborted"})
    /\ <>(ppc \in {"completed", "aborted", "failed"})

\* the invocation completed with one frame more than it was fed tokens
MoreFramesThanTokens ==
    /\ ppc = "completed"
    /\ Len(frames) = TokensFed + 1
    /\ TokensFed >= 1

\* C40: the duration of the audio of the chat response is the sum of the durations
\* of the synthesized audio of the frames gathered into it
ChatDurationIsSum ==
    rpc = "responded" => response.duration = SumDurations(frames, Len(frames))

=============================================================================
